---- MODULE Spec2Model ----
(***************************************************************************)
(* Home Assistant bridge service: the request scheduler                    *)
(* (app/queue/priority_queue.py), the admission gate                       *)
(* (app/auth/middleware.py), the cache store (app/cache/manager.py) and    *)
(* the event-stream client (app/clients/websocket.py).                     *)
(*                                                                         *)
(* Each component has its own specification over its own variables; the    *)
(* variables of the other components stay at their initial values.         *)
(***************************************************************************)
EXTENDS Integers, Sequences, FiniteSets, TLC

(***************************************************************************)
(* Bounds of the model.                                                    *)
(***************************************************************************)
\* add_request calls made in one behaviour of SpecQueue
MaxUnits == 3
\* add_request calls of one priority band made in one behaviour of SpecFifo
FifoUnits == 5
\* largest value time.time() takes in the scheduler specification
MaxClockQ == 1
\* callers that submit without end in SpecLive
LiveUnits == 2
\* no caller submits again while more than this many created _process_queue
\* tasks wait to start
MaxSpawned == 1
\* largest max_concurrent a PriorityQueue is constructed with; the limits
\* checked are 1 and MaxSlots
MaxSlots == 2
\* RateLimiter.max_requests and window_seconds (settings.RATE_LIMIT_REQUESTS,
\* settings.RATE_LIMIT_WINDOW), scaled down
MaxRequests == 2
WindowSeconds == 2
\* largest value time.time() takes in the rate-limiter specification
MaxClockR == 4
\* is_allowed calls made for one key in one behaviour
MaxChecks == 4
MaxServed == 3
\* maxsize and ttl of the "states" TTLCache (2000 entries,
\* settings.STATES_CACHE_TTL), scaled down
StatesMaxSize == 3
StatesTtl == 2
\* maxsize and ttl of the "services" TTLCache (200 entries,
\* settings.SERVICES_CACHE_TTL), scaled down
ServicesMaxSize == 2
ServicesTtl == 3
\* largest value time.monotonic() takes in the cache specifications
MaxClockC == 3
\* CacheManager.set / get calls by the HTTP layer in one behaviour
MaxCacheCalls == 2
MaxCacheOps == 4
\* connect() calls in one behaviour, each opening one connection
MaxConnects == 2
\* settings.WEBSOCKET_RECONNECT_MAX_DELAY (60 seconds), scaled down
MaxDelay == 3
\* messages the server sends in one behaviour, over all connections
MaxServerMsgs == 3
\* get_states() calls made on the client in one behaviour
MaxWsRequests == 1
\* subscribe_events() is called from outside connect() only while
\* message_id is below this value
MaxMessageId == 5

(***************************************************************************)
(* Priority (priority_queue.py: class Priority).                           *)
(***************************************************************************)
CRITICAL == 0
HIGH == 1
NORMAL == 2
LOW == 3
Priority == {CRITICAL, HIGH, NORMAL, LOW}

VARIABLES
    \* ---- PriorityQueue ----
    max_concurrent,   \* self.max_concurrent
    queue,            \* self.queue: the heapq list of PriorityTask
    running_tasks,    \* self.running_tasks
    semaphore,        \* self.semaphore: the value of the asyncio.Semaphore
    _shutdown,        \* self._shutdown
    executing,        \* _process_queue invocations suspended in _execute_task
    spawned,          \* asyncio.create_task(_process_queue()) not yet started
    units,            \* the PriorityTask of every add_request call, in call order
    ret,              \* what each add_request call has returned to its caller
    started,          \* unit ids in the order _execute_task began them
    pendingAt,        \* per call: the ids in self.queue right after its heappush
    script,           \* the priorities a scripted caller submits, in order
    now,              \* time.time()
    \* ---- RateLimiter ----
    rate_limit_storage,  \* key -> (timestamp string -> count), keys as added
    checks,              \* per key: every is_allowed call, its clock and result
    served,              \* the last request auth_middleware answered
    \* ---- CacheManager ----
    caches,           \* cache_manager.caches: name -> TTLCache entries, in
                      \* the order of the TTLCache's links (least recently
                      \* used first), each [key, value, expires]
    monotonic,        \* time.monotonic(), the TTLCache timer
    cacheCalls,       \* CacheManager calls made by the HTTP layer so far
    \* ---- settings and the event handler ----
    settings,         \* the WEBSOCKET_* settings
    events,           \* the state_changed events that arrive, in order
    handled,          \* how many of them _handle_state_changed has handled
    response,         \* the last response of the cached get_state handler
    \* ---- HomeAssistantWebSocketClient ----
    websocket,            \* self.websocket: None or the connection it names
    connected,            \* self.connected
    message_id,           \* self.message_id
    active_subscriptions, \* self.active_subscriptions: event_type -> id
    reconnect_attempts,   \* self.reconnect_attempts
    should_reconnect,     \* self.should_reconnect
    conns,                \* the connections opened so far: the message in
                          \* flight to the client, how many the server has
                          \* sent, whether and how the connection closed,
                          \* whether auth_ok was received on it, and
                          \* whether disconnect() has closed it
    calls,                \* every connect() call: its position, the
                          \* connection its pending recv() reads, the
                          \* messages it received and what it returned
    pendingHandlers,      \* _message_handler tasks created and not started
    handlers,             \* running _message_handler loops: the connection
                          \* each iterates
    pendingReconnects,    \* _attempt_reconnect tasks created and not started
    sleeping,             \* _attempt_reconnect calls in asyncio.sleep
    last_sleep,           \* the latest asyncio.sleep of _attempt_reconnect
                          \* while one is in progress: the attempt number
                          \* and the wait, in tenths of a second
    requests,             \* every get_states() call: its message id, the
                          \* connection it was sent on and how it stands
    subscriptions         \* self.subscriptions: message id -> callback

qvars == <<max_concurrent, queue, running_tasks, semaphore, _shutdown,
           executing, spawned, units, ret, started, pendingAt, script, now>>

rvars == <<rate_limit_storage, checks, served>>

cvars == <<caches, monotonic, cacheCalls>>

evars == <<settings, events, handled, response>>

wvars ==
    <<websocket, connected, message_id, active_subscriptions,
      reconnect_attempts, should_reconnect, conns, calls, pendingHandlers,
      handlers, pendingReconnects, sleeping, last_sleep>>

xvars == <<requests, subscriptions>>

vars == <<qvars, rvars, cvars, evars, wvars, xvars>>

(***************************************************************************)
(* PriorityTask.__lt__: lower priority value first, then older created_at. *)
(***************************************************************************)
TaskLessNewestFirst(a, b) ==
    IF a.priority # b.priority
    THEN a.priority < b.priority
    ELSE a.created_at > b.created_at

TaskLessIgnoresPriority(a, b) == a.created_at < b.created_at

TaskLess(a, b) ==
    IF a.priority # b.priority
    THEN a.priority < b.priority
    ELSE a.created_at < b.created_at

(***************************************************************************)
(* heapq, on 0-based positions as in the library: position p of the list   *)
(* is element p+1 of the sequence.                                         *)
(***************************************************************************)
RECURSIVE SiftDown(_, _, _, _)
SiftDown(heap, startpos, pos, newitem) ==
    IF pos > startpos
    THEN LET parentpos == (pos - 1) \div 2
             parent == heap[parentpos + 1]
         IN  IF TaskLess(newitem, parent)
             THEN SiftDown([heap EXCEPT ![pos + 1] = parent],
                           startpos, parentpos, newitem)
             ELSE [heap EXCEPT ![pos + 1] = newitem]
    ELSE [heap EXCEPT ![pos + 1] = newitem]

RECURSIVE SiftUpLoop(_, _, _)
SiftUpLoop(heap, pos, newitem) ==
    LET endpos == Len(heap)
        leftpos == 2 * pos + 1
        rightpos == leftpos + 1
        childpos == IF rightpos < endpos
                       /\ ~TaskLess(heap[leftpos + 1], heap[rightpos + 1])
                    THEN rightpos
                    ELSE leftpos
    IN  IF leftpos < endpos
        THEN SiftUpLoop([heap EXCEPT ![pos + 1] = heap[childpos + 1]],
                        childpos, newitem)
        ELSE <<[heap EXCEPT ![pos + 1] = newitem], pos>>

SiftUp(heap, pos) ==
    LET bubbled == SiftUpLoop(heap, pos, heap[pos + 1])
    IN  SiftDown(bubbled[1], pos, bubbled[2], heap[pos + 1])

heappush(heap, item) ==
    LET appended == Append(heap, item)
    IN  SiftDown(appended, 0, Len(appended) - 1, item)

\* heappop of a non-empty heap: <<returned item, heap afterwards>>
heappop(heap) ==
    LET lastelt == heap[Len(heap)]
        rest == SubSeq(heap, 1, Len(heap) - 1)
    IN  IF rest # <<>>
        THEN <<rest[1], SiftUp([rest EXCEPT ![1] = lastelt], 0)>>
        ELSE <<lastelt, rest>>

Ids(heap) == {heap[i].id : i \in 1..Len(heap)}

(***************************************************************************)
(* RateLimiter (app/auth/middleware.py).  A rate-limit key is              *)
(* f"{api_key}:{client_ip}" (check_rate_limit).                            *)
(***************************************************************************)
RateKeys == {"key1:10.0.0.1", "key2:10.0.0.1"}

\* module-level rate_limit_storage = {}
\* a response without the header in question
NoHeader == 0

NoServed ==
    [n |-> 0, path |-> "", credential |-> "None", status |-> "",
     retry_after |-> NoHeader, warned |-> "None"]

InitRateLimiter ==
    /\ rate_limit_storage = <<>>
    /\ checks = [k \in RateKeys |-> <<>>]
    /\ served = NoServed

\* str(current_time) and float(timestamp): Python's repr of a float parses
\* back to the same float, so the pair is a bijection between clock values
\* and dictionary keys
Str(t) == <<"str", t>>
Float(ts) == ts[2]

RECURSIVE SumValues(_, _)
SumValues(d, ks) ==
    IF ks = {} THEN 0
    ELSE LET k == CHOOSE x \in ks : TRUE
         IN  d[k] + SumValues(d, ks \ {k})

\* sum(rate_limit_storage[key].values())
sum(d) == SumValues(d, DOMAIN d)

\* the dictionary d with d[k] = v
DictSet(d, k, v) == [x \in DOMAIN d \cup {k} |-> IF x = k THEN v ELSE d[x]]

\* d.get(k, default)
DictGet(d, k, default) == IF k \in DOMAIN d THEN d[k] ELSE default

\* the entries kept by "Clean old entries"
InWindowInclusive(timestamp, window_start) == Float(timestamp) >= window_start

InWindow(timestamp, window_start) == Float(timestamp) > window_start

\* current_requests >= self.max_requests
OverLimitOffByOne(current_requests) == current_requests > MaxRequests

OverLimit(current_requests) == current_requests >= MaxRequests

\* return False before "Add current request": the entries of the key after
\* a refused check
RefusedIsRecorded(cleaned, timestamp_str) ==
    DictSet(cleaned, timestamp_str, DictGet(cleaned, timestamp_str, 0) + 1)

Refused(cleaned, timestamp_str) == cleaned

(***************************************************************************)
(* RateLimiter.is_allowed(key)                                             *)
(***************************************************************************)
is_allowed(key) ==
    LET current_time == now
        window_start == current_time - WindowSeconds
        old == DictGet(rate_limit_storage, key, <<>>)
        kept == {ts \in DOMAIN old : InWindow(ts, window_start)}
        cleaned == [ts \in kept |-> old[ts]]
        current_requests == sum(cleaned)
        timestamp_str == Str(current_time)
    IN  /\ Len(checks[key]) < MaxChecks
        /\ IF OverLimit(current_requests)
           THEN /\ rate_limit_storage' =
                       DictSet(rate_limit_storage, key,
                               Refused(cleaned, timestamp_str))
                /\ checks' = [checks EXCEPT ![key] =
                                 Append(@, [t |-> now, allowed |-> FALSE])]
           ELSE /\ rate_limit_storage' =
                       DictSet(rate_limit_storage, key,
                               DictSet(cleaned, timestamp_str,
                                       DictGet(cleaned, timestamp_str, 0) + 1))
                /\ checks' = [checks EXCEPT ![key] =
                                 Append(@, [t |-> now, allowed |-> TRUE])]
        /\ UNCHANGED <<qvars, cvars, evars, wvars, xvars>>

TickRate ==
    /\ now < MaxClockR
    /\ now' = now + 1
    /\ UNCHANGED <<max_concurrent, queue, running_tasks, semaphore,
                   _shutdown, executing, spawned, units, ret, started,
                   pendingAt, script>>
    /\ UNCHANGED <<rvars, cvars, evars, wvars, xvars>>

NextRate ==
    \/ \E key \in RateKeys : is_allowed(key) /\ UNCHANGED served
    \/ TickRate

(***************************************************************************)
(* auth_middleware (app/auth/middleware.py).  A request is its path and    *)
(* the bearer credential it carries ("None": no Authorization header);     *)
(* every request comes from one client address.                            *)
(***************************************************************************)
BypassPaths ==
    {"/health", "/metrics", "/docs", "/openapi.json",
     "/api/v1/services/test", "/status"}

Paths == BypassPaths \cup {"/api/v1/states/all", "/health/"}

\* settings.API_KEYS
valid_keys == {"key1", "key2"}

\* "key" is the beginning of a configured key, "bad" is unrelated to any
Credentials == {"None", "key1", "key2", "key", "bad"}

client_ip == "10.0.0.1"

\* a path list that exempts nothing
IsBypassNever(path) == FALSE

\* request.url.path in [...]
IsBypass(path) == path \in BypassPaths

\* a credential check that accepts the beginning of a configured key
api_key_authPartial(credential) ==
    IF credential = "None" THEN "None"
    ELSE IF \E k \in valid_keys, rest \in {"", "1", "2"} : credential \o rest = k
         THEN CHOOSE k \in valid_keys :
                  \E rest \in {"", "1", "2"} : credential \o rest = k
         ELSE "None"

\* api_key_auth(request): the credentials, or None
api_key_auth(credential) ==
    IF credential = "None" THEN "None"
    ELSE IF credential \notin valid_keys THEN "None"
    ELSE credential

\* the HTTPException of authenticate_request and of check_rate_limit
Unauthorized == [status_code |-> "401", retry_after |-> NoHeader]
TooManyRequests == [status_code |-> "429", retry_after |-> WindowSeconds]

\* except HTTPException as e: JSONResponse(status_code=e.status_code,
\* content=...): the response is built without e.headers
JSONResponse(e) == [status |-> e.status_code, retry_after |-> NoHeader]

\* the response of the middleware ("call_next": the response of the handler
\* behind it), and the api_key of the warning check_rate_limit logged
Served(path, credential, answer, warned) ==
    [n |-> served.n + 1, path |-> path, credential |-> credential,
     status |-> answer.status, retry_after |-> answer.retry_after,
     warned |-> warned]

CallNext == [status |-> "call_next", retry_after |-> NoHeader]

auth_middleware(path, credential) ==
    /\ served.n < MaxServed
    /\ IF IsBypass(path)
       THEN /\ served' = Served(path, credential, CallNext, "None")
            /\ UNCHANGED <<rate_limit_storage, checks>>
            /\ UNCHANGED <<qvars, cvars, evars, wvars, xvars>>
       ELSE IF api_key_auth(credential) = "None"
       THEN /\ served' = Served(path, credential, JSONResponse(Unauthorized),
                                "None")
            /\ UNCHANGED <<rate_limit_storage, checks>>
            /\ UNCHANGED <<qvars, cvars, evars, wvars, xvars>>
       ELSE LET api_key == api_key_auth(credential)
                rate_limit_key == api_key \o ":" \o client_ip
            IN  /\ is_allowed(rate_limit_key)
                /\ served' =
                       IF checks'[rate_limit_key]
                             [Len(checks'[rate_limit_key])].allowed
                       THEN Served(path, credential, CallNext, "None")
                       ELSE Served(path, credential,
                                   JSONResponse(TooManyRequests), api_key)

NextAuth ==
    \/ \E path \in Paths, credential \in Credentials :
           auth_middleware(path, credential)
    \/ TickRate

(***************************************************************************)
(* Strings whose characters matter (cache keys, entity ids, patterns) are  *)
(* sequences of characters.                                                *)
(***************************************************************************)
s_get_state_ == <<"g", "e", "t", "_", "s", "t", "a", "t", "e", ":">>
s_get_all_states == <<"g", "e", "t", "_", "a", "l", "l", "_", "s", "t", "a", "t", "e", "s">>
s_group_ == <<"g", "r", "o", "u", "p", ":">>
s_get_group_states_light == <<"g", "e", "t", "_", "g", "r", "o", "u", "p", "_", "s", "t", "a", "t", "e", "s", ":", "g", "r", "o", "u", "p", "_", "i", "d", ":", "l", "i", "g", "h", "t">>
s_group_light == <<"g", "r", "o", "u", "p", ":", "l", "i", "g", "h", "t">>
s_light_kitchen == <<"l", "i", "g", "h", "t", ".", "k", "i", "t", "c", "h", "e", "n">>
s_light_hall == <<"l", "i", "g", "h", "t", ".", "h", "a", "l", "l">>
s_camera_door == <<"c", "a", "m", "e", "r", "a", ".", "d", "o", "o", "r">>
s_light_ == <<"l", "i", "g", "h", "t", ".">>
s_camera == <<"c", "a", "m", "e", "r", "a">>
s_camera_ == <<"c", "a", "m", "e", "r", "a", ".">>
s_get_services == <<"g", "e", "t", "_", "s", "e", "r", "v", "i", "c", "e", "s">>
s_get_state == <<"g", "e", "t", "_", "s", "t", "a", "t", "e">>
s_entity_id == <<"e", "n", "t", "i", "t", "y", "_", "i", "d">>
s_media_player == <<"m", "e", "d", "i", "a", "_", "p", "l", "a", "y", "e", "r">>
None == "None"

\* pattern in str(key)
Contains(pattern, key) ==
    \E i \in 0..(Len(key) - Len(pattern)) :
        SubSeq(key, i + 1, i + Len(pattern)) = pattern

\* entity_id.startswith(f)
StartsWith(str, f) == Len(f) <= Len(str) /\ SubSeq(str, 1, Len(f)) = f

\* entity_id.split(".")[0]
SplitFirst(str) ==
    IF \E i \in 1..Len(str) : str[i] = "."
    THEN LET first == CHOOSE i \in 1..Len(str) :
                          str[i] = "." /\ \A j \in 1..(i - 1) : str[j] # "."
         IN  SubSeq(str, 1, first - 1)
    ELSE str

(***************************************************************************)
(* cachetools.TTLCache, as CacheManager uses it (app/cache/manager.py).    *)
(* An entry is visible while timer() < expires; a handler reads the timer  *)
(* once.  The sequence is the order of the cache's links: a hit and a      *)
(* write move the entry to the end, and a full cache drops the first.      *)
(***************************************************************************)
CacheNames == {"states", "services", "state"}
MaxSizeOf(cache_name) ==
    IF cache_name = "services" THEN ServicesMaxSize ELSE StatesMaxSize
TtlOf(cache_name) ==
    IF cache_name = "services" THEN ServicesTtl ELSE StatesTtl

\* TTLCache.expire(): the entries that have not expired
Expire(cache) == SelectSeq(cache, LAMBDA e : monotonic < e.expires)

IndexOf(cache, key) == {i \in 1..Len(cache) : cache[i].key = key}

\* a membership test that never looks at the timer
TTLContainsNoExpiry(cache, key) == IndexOf(cache, key) # {}

\* key in cache
TTLContains(cache, key) ==
    \E i \in IndexOf(cache, key) : monotonic < cache[i].expires

Without(cache, key) == SelectSeq(cache, LAMBDA e : e.key # key)

\* cache.keys(): the keys an iteration yields
TTLKeys(cache) == {cache[i].key : i \in {j \in 1..Len(cache) : monotonic < cache[j].expires}}

\* bookkeeping of the model, not of the TTLCache: ins ranks the entries in
\* the order in which they were written; a read never changes it
RECURSIVE MaxIns(_)
MaxIns(cache) ==
    IF cache = <<>> THEN 0
    ELSE LET rest == MaxIns(Tail(cache))
         IN  IF Head(cache).ins > rest THEN Head(cache).ins ELSE rest

\* cache[key] = value.  written (the timer at the write) and ins are
\* bookkeeping of the model.
TTLSetItem(cache, key, value, maxsize, ttl) ==
    LET live == Expire(cache)
        room == IF IndexOf(live, key) = {} /\ Len(live) + 1 > maxsize
                THEN SubSeq(live, Len(live) - maxsize + 2, Len(live))
                ELSE live
        ins  == MaxIns(live) + 1
    IN  Append(Without(room, key),
               [key |-> key, value |-> value, expires |-> monotonic + ttl,
                written |-> monotonic, ins |-> ins])

\* cache.get(key): <<value or None, cache afterwards>>
TTLGet(cache, key) ==
    IF TTLContains(cache, key)
    THEN LET i == CHOOSE i \in IndexOf(cache, key) : TRUE
         IN  <<cache[i].value, Append(Without(cache, key), cache[i])>>
    ELSE <<None, cache>>

(***************************************************************************)
(* CacheManager: each operation maps the caches to the caches afterwards.  *)
(***************************************************************************)
\* CacheManager.get(cache_name, key): the value returned
cache_lookup(c, cache_name, key) ==
    IF cache_name \notin DOMAIN c THEN None
    ELSE TTLGet(c[cache_name], key)[1]

\* CacheManager.get(cache_name, key): the caches afterwards
cache_get(c, cache_name, key) ==
    IF cache_name \notin DOMAIN c THEN c
    ELSE [c EXCEPT ![cache_name] = TTLGet(@, key)[2]]

\* CacheManager.set(cache_name, key, value)
cache_set(c, cache_name, key, value) ==
    IF cache_name \notin DOMAIN c THEN c
    ELSE [c EXCEPT ![cache_name] =
             TTLSetItem(@, key, value, MaxSizeOf(cache_name), TtlOf(cache_name))]

\* CacheManager.delete(cache_name, key)
cache_delete(c, cache_name, key) ==
    IF cache_name \notin DOMAIN c THEN c
    ELSE IF TTLContains(c[cache_name], key)
         THEN [c EXCEPT ![cache_name] = Without(@, key)]
         ELSE c

\* CacheManager.invalidate_pattern(cache_name, pattern)
invalidate_pattern(c, cache_name, pattern) ==
    IF cache_name \notin DOMAIN c THEN c
    ELSE LET keys_to_delete ==
                 {key \in TTLKeys(c[cache_name]) : Contains(pattern, key)}
         IN  [c EXCEPT ![cache_name] =
                 SelectSeq(@, LAMBDA e : e.key \notin keys_to_delete)]

\* CacheManager.clear(cache_name)
cache_clear(c, cache_name) ==
    IF cache_name \notin DOMAIN c THEN c
    ELSE [c EXCEPT ![cache_name] = <<>>]

\* CacheManager.__init__ / _create_default_caches
InitCaches ==
    /\ caches = [n \in CacheNames |-> <<>>]
    /\ monotonic = 0
    /\ cacheCalls = 0

(***************************************************************************)
(* The event handler of HomeAssistantWebSocketClient.                      *)
(***************************************************************************)
Entities == {s_light_kitchen, s_light_hall, s_camera_door}
Values == {"A", "B", "C"}

\* settings.py defaults, and the settings the tests use
SettingsChoices ==
    {[WEBSOCKET_UPDATE_CACHE |-> u, WEBSOCKET_FILTER_ENABLED |-> f,
      WEBSOCKET_ENTITY_FILTERS |-> fs, WEBSOCKET_EXCLUDE_DOMAINS |-> ex,
      WEBSOCKET_RECONNECT_MAX_ATTEMPTS |-> 0] :
        u \in BOOLEAN, f \in BOOLEAN,
        fs \in {{}, {s_light_}}, ex \in {{s_media_player, s_camera}}}

\* _should_process_entity(entity_id)
_should_process_entityInclusionFirst(entity_id) ==
    LET domain == SplitFirst(entity_id)
    IN  IF \E f \in settings.WEBSOCKET_ENTITY_FILTERS : StartsWith(entity_id, f)
        THEN TRUE
        ELSE settings.WEBSOCKET_ENTITY_FILTERS = {}
                /\ domain \notin settings.WEBSOCKET_EXCLUDE_DOMAINS

_should_process_entity(entity_id) ==
    LET domain == SplitFirst(entity_id)
    IN  IF domain \in settings.WEBSOCKET_EXCLUDE_DOMAINS THEN FALSE
        ELSE IF settings.WEBSOCKET_ENTITY_FILTERS # {}
             THEN \E f \in settings.WEBSOCKET_ENTITY_FILTERS :
                      StartsWith(entity_id, f)
             ELSE TRUE

\* event.get("data", {}).get("entity_id") of an event that carries none:
\* entity ids are sequences of characters, the absent one is the empty one
\* (None and "" are both false in "if not entity_id")
NoEntity == <<>>

\* the event is dropped before it touches the cache
DroppedUnlessRemoved(event) ==
    \/ event.entity_id = NoEntity
    \/ settings.WEBSOCKET_FILTER_ENABLED /\ ~_should_process_entity(event.entity_id)

Dropped(event) ==
    \/ event.entity_id = NoEntity
    \/ event.new_state = None
    \/ settings.WEBSOCKET_FILTER_ENABLED /\ ~_should_process_entity(event.entity_id)

\* f"group:{domain}"
GroupPattern(entity_id) == s_group_ \o SplitFirst(entity_id)

\* the per-entity step of _handle_state_changed
EntityEntryNeverOverwritten(c, event) ==
    LET cache_key == s_get_state_ \o event.entity_id
    IN  IF settings.WEBSOCKET_UPDATE_CACHE
        THEN IF TTLContains(c["states"], cache_key) THEN c
             ELSE cache_set(c, "states", cache_key, event.new_state)
        ELSE cache_delete(c, "states", cache_key)

EntityEntry(c, event) ==
    LET cache_key == s_get_state_ \o event.entity_id
    IN  IF settings.WEBSOCKET_UPDATE_CACHE
        THEN cache_set(c, "states", cache_key, event.new_state)
        ELSE cache_delete(c, "states", cache_key)

\* _handle_state_changed(event_data): the caches afterwards
StateChanged(c, event) ==
    IF Dropped(event) THEN c
    ELSE LET c1 == EntityEntry(c, event)
             c2 == cache_delete(c1, "states", s_get_all_states)
         IN  invalidate_pattern(c2, "states", GroupPattern(event.entity_id))

\* where the try block of the update strategy raises: nowhere, in
\* cache_manager.set before anything is stored, or in the log call after it
WriteFailures == {"none", "set", "log"}

\* the except clause of the update strategy
FallbackKeepsEntry(c, cache_key) == c

Fallback(c, cache_key) == cache_delete(c, "states", cache_key)

\* the per-entity step of _handle_state_changed when the try block raises
EntityEntryRaises(c, event, raises) ==
    LET cache_key == s_get_state_ \o event.entity_id
    IN  IF raises = "set" THEN Fallback(c, cache_key)
        ELSE Fallback(cache_set(c, "states", cache_key, event.new_state),
                      cache_key)

\* _handle_state_changed(event_data) with a try block that may raise: the
\* caches afterwards
StateChangedRaises(c, event, raises) ==
    IF raises = "none" \/ Dropped(event) THEN StateChanged(c, event)
    ELSE LET c1 == EntityEntryRaises(c, event, raises)
             c2 == cache_delete(c1, "states", s_get_all_states)
         IN  invalidate_pattern(c2, "states", GroupPattern(event.entity_id))

\* self.websocket is None
NoConn == 0

\* no _attempt_reconnect is in asyncio.sleep
NoSleep == [n |-> 0, wait |-> 0]

\* no lookup has been answered yet
NoResponse ==
    [call |-> 0, entity_id |-> <<>>, value |-> None, upstream |-> FALSE]

\* HomeAssistantWebSocketClient.__init__
InitClient ==
    /\ websocket = NoConn
    /\ connected = FALSE
    /\ message_id = 1
    /\ active_subscriptions = <<>>
    /\ reconnect_attempts = 0
    /\ should_reconnect = TRUE
    /\ conns = <<>>
    /\ calls = <<>>
    /\ pendingHandlers = 0
    /\ handlers = <<>>
    /\ pendingReconnects = 0
    /\ sleeping = 0
    /\ last_sleep = NoSleep
    /\ requests = <<>>
    /\ subscriptions = <<>>

InitNoEvents ==
    /\ InitCaches
    /\ InitClient
    /\ settings \in {x \in SettingsChoices :
                        x.WEBSOCKET_UPDATE_CACHE /\ x.WEBSOCKET_FILTER_ENABLED
                        /\ x.WEBSOCKET_ENTITY_FILTERS = {}}
    /\ events = <<>>
    /\ handled = 0
    /\ response = NoResponse

\* async for message in self.websocket: the message the loop takes after
\* it has taken n, the oldest not taken yet
NextMessageNewestFirst(received, n) == received[Len(received) - n]

NextMessage(received, n) == received[n + 1]

\* the next event arrives and _handle_state_changed handles it
_handle_state_changed ==
    /\ handled < Len(events)
    /\ caches' = StateChanged(caches, NextMessage(events, handled))
    /\ handled' = handled + 1
    /\ UNCHANGED <<monotonic, cacheCalls, settings, events, response>>
    /\ UNCHANGED <<qvars, rvars, wvars, xvars>>

\* the next event arrives and _handle_state_changed handles it; under the
\* update strategy the try block may raise
HandleWriteFails(raises) ==
    /\ handled < Len(events)
    /\ raises # "none" => settings.WEBSOCKET_UPDATE_CACHE
    /\ caches' = StateChangedRaises(caches, NextMessage(events, handled), raises)
    /\ handled' = handled + 1
    /\ UNCHANGED <<monotonic, cacheCalls, settings, events, response>>
    /\ UNCHANGED <<qvars, rvars, wvars, xvars>>

\* keys other actors write in the "states" cache: the all-entities entry
\* and a group listing (routes/states.py), a per-entity entry (the tests),
\* and a key of the form the handler's group pattern is aimed at
HttpKeys ==
    {s_get_all_states, s_get_group_states_light, s_group_light,
     s_get_state_ \o s_light_kitchen}

\* another actor (an HTTP handler through @cached, a test) writes an entry
HttpSet ==
    /\ cacheCalls < MaxCacheCalls
    /\ \E key \in HttpKeys :
          caches' = cache_set(caches, "states", key, "old")
    /\ cacheCalls' = cacheCalls + 1
    /\ UNCHANGED <<monotonic, settings, events, handled, response>>
    /\ UNCHANGED <<qvars, rvars, wvars, xvars>>

\* another actor reads an entry
HttpGet ==
    /\ cacheCalls < MaxCacheCalls
    /\ \E key \in HttpKeys :
          /\ caches' = cache_get(caches, "states", key)
          /\ caches' # caches
    /\ cacheCalls' = cacheCalls + 1
    /\ UNCHANGED <<monotonic, settings, events, handled, response>>
    /\ UNCHANGED <<qvars, rvars, wvars, xvars>>

\* cache_key(func.__name__, **kwargs) for one keyword argument
cache_key(func_name, kw, value) ==
    func_name \o <<":">> \o kw \o <<":">> \o value

\* GET /api/v1/states/{entity_id} with STATES_INDIVIDUAL_CACHE_ENABLED: the
\* @cached("state") wrapper of get_state answers from the cache, or calls
\* upstream and stores the result
get_state(entity_id) ==
    /\ cacheCalls < MaxCacheCalls
    /\ LET key == cache_key(s_get_state, s_entity_id, entity_id)
           cached_result == cache_lookup(caches, "state", key)
       IN  IF cached_result # None
           THEN /\ caches' = cache_get(caches, "state", key)
                /\ response' = [call |-> cacheCalls + 1,
                                entity_id |-> entity_id,
                                value |-> cached_result, upstream |-> FALSE]
           ELSE /\ caches' = cache_set(caches, "state", key, "upstream")
                /\ response' = [call |-> cacheCalls + 1,
                                entity_id |-> entity_id,
                                value |-> "upstream", upstream |-> TRUE]
    /\ cacheCalls' = cacheCalls + 1
    /\ UNCHANGED <<monotonic, settings, events, handled>>
    /\ UNCHANGED <<qvars, rvars, wvars, xvars>>

TickCache ==
    /\ monotonic < MaxClockC
    /\ monotonic' = monotonic + 1
    /\ UNCHANGED <<caches, cacheCalls, settings, events, handled, response>>
    /\ UNCHANGED <<qvars, rvars, wvars, xvars>>

NextEvents ==
    \/ _handle_state_changed
    \/ HttpSet
    \/ HttpGet
    \/ \E entity_id \in Entities : get_state(entity_id)
    \/ TickCache

NextFallback ==
    \/ \E raises \in WriteFailures : HandleWriteFails(raises)
    \/ HttpSet
    \/ HttpGet
    \/ TickCache

\* P7: state_changed events for one entity with new values A, B, C, in order
P7Scripts ==
    {<<[entity_id |-> e, new_state |-> "A"],
       [entity_id |-> e, new_state |-> "B"],
       [entity_id |-> e, new_state |-> "C"]>> : e \in Entities}


(***************************************************************************)
(* HomeAssistantWebSocketClient (app/clients/websocket.py) and the server  *)
(* it talks to.  A coroutine runs without interruption between two awaits; *)
(* each action below is one such stretch.  recv() on a closed connection   *)
(* raises ConnectionClosed; iterating a connection ends quietly when it    *)
(* closed with a normal close code and raises ConnectionClosed otherwise.  *)
(***************************************************************************)
EventTypes == <<"state_changed", "service_registered", "service_removed">>

\* what the server can put on a connection: the type of a JSON message
\* ("event" is an event message whose event_type is state_changed,
\* "service_event" one whose event_type is service_registered or
\* service_removed), or text that is not JSON
ServerMessages ==
    {"auth_required", "auth_ok", "auth_invalid", "event", "service_event",
     "not_json"}

\* the state_changed event an "event" message carries
EventData == [entity_id |-> s_light_kitchen, new_state |-> "A"]

\* is_connected()
IsConnected(conn_flag, ws) == conn_flag /\ ws # NoConn

is_connected == IsConnected(connected, websocket)

\* auth_data.get("type") == "auth_required"
IsAuthRequired(type) == type = "auth_required"

\* result_data.get("type") == "auth_ok"
IsAuthOkAnyResult(type) == type \in {"auth_ok", "auth_invalid"}

IsAuthOk(type) == type = "auth_ok"

\* a message is waiting on connection c
HasMessage(c) == conns[c].inbox # None

\* recv() on connection c raises ConnectionClosed
RecvRaises(c) == conns[c].inbox = None /\ conns[c].closed # "open"

\* dict assignment active_subscriptions[event_type] = id
SetSubscription(subs, event_type, id) ==
    [t \in DOMAIN subs \cup {event_type} |->
        IF t = event_type THEN id ELSE subs[t]]

\* _attempt_reconnect up to its sleep: <<reconnect_attempts, sleepers added>>
AttemptReconnectOneMore(attempts) ==
    LET max_attempts == settings.WEBSOCKET_RECONNECT_MAX_ATTEMPTS
    IN  IF max_attempts > 0 /\ attempts > max_attempts
        THEN <<attempts, 0>>
        ELSE <<attempts + 1, 1>>

AttemptReconnect(attempts) ==
    LET max_attempts == settings.WEBSOCKET_RECONNECT_MAX_ATTEMPTS
    IN  IF max_attempts > 0 /\ attempts >= max_attempts
        THEN <<attempts, 0>>
        ELSE <<attempts + 1, 1>>

\* 2 ** n
RECURSIVE Pow2(_)
Pow2(n) == IF n = 0 THEN 1 ELSE 2 * Pow2(n - 1)

\* base_delay = min(2**self.reconnect_attempts, WEBSOCKET_RECONNECT_MAX_DELAY)
BaseDelayUncapped(n) == Pow2(n)

BaseDelay(n) == IF Pow2(n) < MaxDelay THEN Pow2(n) ELSE MaxDelay

\* random.uniform(0, 0.1 * base_delay), in tenths of a second: the two ends
\* of the interval
Jitter(base_delay) == {0, base_delay}

\* the asyncio.sleep(wait_time) of an _attempt_reconnect called with the
\* counter at attempts, if it gets that far; wait is in tenths of a second
Sleeps(attempts) ==
    IF AttemptReconnect(attempts)[2] = 1
    THEN \E jitter \in Jitter(BaseDelay(attempts + 1)) :
             last_sleep' = [n |-> attempts + 1,
                            wait |-> 10 * BaseDelay(attempts + 1) + jitter]
    ELSE last_sleep' = last_sleep

\* connect() call i returns result; its caller goes on: the startup code
\* creates an _attempt_reconnect task after a failure, _attempt_reconnect
\* calls itself after a failure while should_reconnect
Return(i, result, first, second, attempts) ==
    /\ calls' = [calls EXCEPT ![i] =
                    [@ EXCEPT !.pc = "done", !.result = result,
                              !.first = first, !.second = second]]
    /\ IF calls[i].caller = "startup"
       THEN /\ pendingReconnects' =
                   pendingReconnects + (IF result THEN 0 ELSE 1)
            /\ reconnect_attempts' = attempts
            /\ sleeping' = sleeping
            /\ last_sleep' = last_sleep
       ELSE IF ~result /\ should_reconnect
       THEN /\ reconnect_attempts' = AttemptReconnect(attempts)[1]
            /\ sleeping' = sleeping + AttemptReconnect(attempts)[2]
            /\ Sleeps(attempts)
            /\ pendingReconnects' = pendingReconnects
       ELSE /\ reconnect_attempts' = attempts
            /\ sleeping' = sleeping
            /\ last_sleep' = last_sleep
            /\ pendingReconnects' = pendingReconnects

NewCall(caller) ==
    [pc |-> "open", conn |-> NoConn, caller |-> caller, first |-> None,
     second |-> None, sub_id |-> 0, result |-> FALSE]

\* main.py lifespan startup: success = await websocket_client.connect()
StartupConnect ==
    /\ calls = <<>>
    /\ calls' = <<NewCall("startup")>>
    /\ UNCHANGED <<websocket, connected, message_id, active_subscriptions,
                   reconnect_attempts, should_reconnect, conns,
                   pendingHandlers, handlers, pendingReconnects, sleeping, last_sleep>>
    /\ UNCHANGED <<qvars, rvars, cvars, evars, xvars>>

\* websockets.connect(...) completes: the connection is stored in
\* self.websocket and the first recv() waits on it; or it raises
Open(i) ==
    /\ calls[i].pc = "open"
    /\ \/ /\ conns' = Append(conns, [inbox |-> None, result_id |-> 0,
                                     sent |-> 0, closed |-> "open",
                                     authed |-> FALSE,
                                     disconnected |-> FALSE])
          /\ websocket' = Len(conns) + 1
          /\ calls' = [calls EXCEPT ![i] =
                          [@ EXCEPT !.pc = "recv1", !.conn = Len(conns) + 1]]
          /\ UNCHANGED <<reconnect_attempts, pendingReconnects, sleeping, last_sleep>>
       \/ /\ Return(i, FALSE, None, None, reconnect_attempts)
          /\ UNCHANGED <<conns, websocket>>
    /\ UNCHANGED <<connected, message_id, active_subscriptions,
                   should_reconnect, pendingHandlers, handlers>>
    /\ UNCHANGED <<qvars, rvars, cvars, evars, xvars>>

\* the first recv() of connect() completes
RecvAuthRequired(i) ==
    /\ calls[i].pc = "recv1"
    /\ LET c == calls[i].conn
       IN  \/ /\ HasMessage(c)
              /\ conns' = [conns EXCEPT ![c].inbox = None]
              /\ IF /\ IsAuthRequired(conns[c].inbox)
                    /\ conns[websocket].closed = "open"
                 THEN \* the auth message is sent and the second recv() waits
                      /\ calls' = [calls EXCEPT ![i] =
                                      [@ EXCEPT !.pc = "recv2",
                                                !.first = conns[c].inbox,
                                                !.conn = websocket]]
                      /\ UNCHANGED <<reconnect_attempts, pendingReconnects,
                                     sleeping, last_sleep>>
                 ELSE Return(i, FALSE, conns[c].inbox, None,
                             reconnect_attempts)
           \/ /\ RecvRaises(c)
              /\ Return(i, FALSE, None, None, reconnect_attempts)
              /\ UNCHANGED conns
    /\ UNCHANGED <<websocket, connected, message_id, active_subscriptions,
                   should_reconnect, pendingHandlers, handlers>>
    /\ UNCHANGED <<qvars, rvars, cvars, evars, xvars>>

\* message_id = self.message_id; self.message_id += 1: the counter after an
\* id was taken
NextIdSame(id) == id

NextId(id) == id + 1

\* self.reconnect_attempts = 0 after auth_ok
AttemptsAfterAuthOkKept(attempts) == attempts

AttemptsAfterAuthOk(attempts) == 0

\* asyncio.create_task(self._message_handler()): the tasks created and not
\* started yet
HandlersCreatedNone(pending) == pending

HandlersCreated(pending) == pending + 1

\* the second recv() of connect() completes; on auth_ok the client is
\* marked connected, the message handler task is created and
\* subscribe_events("state_changed") runs up to its send
RecvAuthResult(i) ==
    /\ calls[i].pc = "recv2"
    /\ LET c == calls[i].conn
       IN  \/ /\ HasMessage(c)
              /\ conns' = [conns EXCEPT ![c].inbox = None,
                                        ![c].authed =
                                            @ \/ IsAuthOk(conns[c].inbox)]
              /\ IF IsAuthOk(conns[c].inbox)
                 THEN /\ connected' = TRUE
                      /\ reconnect_attempts' =
                             AttemptsAfterAuthOk(reconnect_attempts)
                      /\ pendingHandlers' = HandlersCreated(pendingHandlers)
                      /\ message_id' = NextId(message_id)
                      /\ calls' = [calls EXCEPT ![i] =
                                      [@ EXCEPT !.pc = "send1",
                                                !.second = conns[c].inbox,
                                                !.sub_id = message_id,
                                                !.conn = websocket]]
                      /\ UNCHANGED <<pendingReconnects, sleeping, last_sleep>>
                 ELSE /\ Return(i, FALSE, calls[i].first, conns[c].inbox,
                                reconnect_attempts)
                      /\ UNCHANGED <<connected, pendingHandlers, message_id>>
           \/ /\ RecvRaises(c)
              /\ Return(i, FALSE, calls[i].first, None, reconnect_attempts)
              /\ UNCHANGED <<conns, connected, pendingHandlers, message_id>>
    /\ UNCHANGED <<websocket, active_subscriptions, should_reconnect, handlers>>
    /\ UNCHANGED <<qvars, rvars, cvars, evars, xvars>>

\* the send of the k-th subscribe_events completes (or raises) on the
\* connection that was self.websocket when it began; the subscription is
\* recorded and the next subscribe_events runs up to its send, or connect()
\* returns True
SendSubscribe(i, k) ==
    /\ calls[i].pc = <<"send1", "send2", "send3">>[k]
    /\ IF conns[calls[i].conn].closed # "open"
       THEN /\ Return(i, FALSE, calls[i].first, calls[i].second,
                      reconnect_attempts)
            /\ UNCHANGED <<active_subscriptions, message_id>>
       ELSE /\ active_subscriptions' =
                   SetSubscription(active_subscriptions, EventTypes[k],
                                   calls[i].sub_id)
            /\ IF k = 3
               THEN /\ Return(i, TRUE, calls[i].first, calls[i].second,
                              reconnect_attempts)
                    /\ UNCHANGED message_id
               ELSE IF ~connected
               THEN /\ Return(i, FALSE, calls[i].first, calls[i].second,
                              reconnect_attempts)
                    /\ UNCHANGED message_id
               ELSE /\ message_id' = NextId(message_id)
                    /\ calls' = [calls EXCEPT ![i] =
                                    [@ EXCEPT !.pc = <<"send2", "send3">>[k],
                                              !.sub_id = message_id,
                                              !.conn = websocket]]
                    /\ UNCHANGED <<reconnect_attempts, pendingReconnects,
                                   sleeping, last_sleep>>
    /\ UNCHANGED <<websocket, connected, should_reconnect, conns,
                   pendingHandlers, handlers>>
    /\ UNCHANGED <<qvars, rvars, cvars, evars, xvars>>

\* a created _message_handler task starts iterating self.websocket
HandlerStart ==
    /\ pendingHandlers > 0
    /\ pendingHandlers' = pendingHandlers - 1
    /\ handlers' = Append(handlers, websocket)
    /\ UNCHANGED <<websocket, connected, message_id, active_subscriptions,
                   reconnect_attempts, should_reconnect, conns, calls,
                   pendingReconnects, sleeping, last_sleep>>
    /\ UNCHANGED <<qvars, rvars, cvars, evars, xvars>>

RemoveAt(seq, h) == SubSeq(seq, 1, h - 1) \o SubSeq(seq, h + 1, Len(seq))

\* _handle_event(event_data): the caches afterwards.  Only a state_changed
\* event is passed on; every other event type is logged and dropped.
_handle_event(c, message) ==
    IF message = "event" THEN StateChanged(c, EventData) ELSE c

\* _handle_service_event(event_data): the caches afterwards
_handle_service_event(c) == cache_clear(c, "services")

\* the running loops after loop h has dealt with one message: the except
\* clauses inside the loop body log a message that is not JSON and an
\* exception of the handling, and the iteration goes on
LoopAfterMessageEndsOnError(hs, h, message, raised) ==
    IF message = "not_json" \/ raised THEN RemoveAt(hs, h) ELSE hs

LoopAfterMessage(hs, h, message, raised) == hs

\* _message_handler receives one message; an event goes to _handle_event,
\* which raises before it touches the cache when the "event" of the message
\* is not an object
HandlerMessage(h) ==
    /\ h \in 1..Len(handlers)
    /\ HasMessage(handlers[h])
    /\ conns' = [conns EXCEPT ![handlers[h]].inbox = None,
                              ![handlers[h]].result_id = 0]
    /\ \E raised \in BOOLEAN :
          /\ raised => conns[handlers[h]].inbox \in {"event", "service_event"}
          /\ caches' = IF ~raised /\ conns[handlers[h]].inbox
                                        \in {"event", "service_event"}
                       THEN _handle_event(caches, conns[handlers[h]].inbox)
                       ELSE caches
          /\ handlers' = LoopAfterMessage(handlers, h,
                                          conns[handlers[h]].inbox, raised)
    /\ UNCHANGED <<websocket, connected, message_id, active_subscriptions,
                   reconnect_attempts, should_reconnect, calls,
                   pendingHandlers, pendingReconnects, sleeping, last_sleep>>
    /\ UNCHANGED <<monotonic, cacheCalls>>
    /\ UNCHANGED <<qvars, rvars, evars, xvars>>

\* the iteration of _message_handler ends: quietly after a normal close,
\* with ConnectionClosed otherwise
HandlerClosed(h) ==
    /\ h \in 1..Len(handlers)
    /\ RecvRaises(handlers[h])
    /\ handlers' = RemoveAt(handlers, h)
    /\ IF conns[handlers[h]].closed = "ok"
       THEN UNCHANGED <<connected, reconnect_attempts, sleeping, last_sleep>>
       ELSE /\ connected' = FALSE
            /\ IF should_reconnect
               THEN /\ reconnect_attempts' =
                           AttemptReconnect(reconnect_attempts)[1]
                    /\ sleeping' =
                           sleeping + AttemptReconnect(reconnect_attempts)[2]
                    /\ Sleeps(reconnect_attempts)
               ELSE UNCHANGED <<reconnect_attempts, sleeping, last_sleep>>
    /\ UNCHANGED <<websocket, message_id, active_subscriptions,
                   should_reconnect, conns, calls, pendingHandlers,
                   pendingReconnects>>
    /\ UNCHANGED <<qvars, rvars, cvars, evars, xvars>>

\* _message_handler ends with an exception other than ConnectionClosed
\* (the second except clause)
HandlerRaises(h) ==
    /\ h \in 1..Len(handlers)
    /\ handlers' = RemoveAt(handlers, h)
    /\ connected' = FALSE
    /\ UNCHANGED <<websocket, message_id, active_subscriptions,
                   reconnect_attempts, should_reconnect, conns, calls,
                   pendingHandlers, pendingReconnects, sleeping, last_sleep>>
    /\ UNCHANGED <<qvars, rvars, cvars, evars, xvars>>

\* the _attempt_reconnect task the startup code created starts
ReconnectStart ==
    /\ pendingReconnects > 0
    /\ pendingReconnects' = pendingReconnects - 1
    /\ reconnect_attempts' = AttemptReconnect(reconnect_attempts)[1]
    /\ sleeping' = sleeping + AttemptReconnect(reconnect_attempts)[2]
    /\ Sleeps(reconnect_attempts)
    /\ UNCHANGED <<websocket, connected, message_id, active_subscriptions,
                   should_reconnect, conns, calls, pendingHandlers, handlers>>
    /\ UNCHANGED <<qvars, rvars, cvars, evars, xvars>>

\* asyncio.sleep(wait_time) is over: success = await self.connect()
ReconnectWake ==
    /\ sleeping > 0
    /\ Len(calls) < MaxConnects
    /\ sleeping' = sleeping - 1
    /\ last_sleep' = IF sleeping = 1 THEN NoSleep ELSE last_sleep
    /\ calls' = Append(calls, NewCall("reconnect"))
    /\ UNCHANGED <<websocket, connected, message_id, active_subscriptions,
                   reconnect_attempts, should_reconnect, conns,
                   pendingHandlers, handlers, pendingReconnects>>
    /\ UNCHANGED <<qvars, rvars, cvars, evars, xvars>>

\* main.py lifespan shutdown: should_reconnect = False; await disconnect().
\* The lifespan reaches it after its startup part, which awaits connect().
Disconnect ==
    /\ calls # <<>>
    /\ calls[1].pc = "done"
    /\ should_reconnect
    /\ should_reconnect' = FALSE
    /\ IF websocket # NoConn
       THEN /\ conns' = [conns EXCEPT ![websocket].closed =
                                         IF @ = "open" THEN "ok" ELSE @,
                                     ![websocket].disconnected = TRUE]
            /\ connected' = FALSE
       ELSE UNCHANGED <<conns, connected>>
    /\ UNCHANGED <<websocket, message_id, active_subscriptions,
                   reconnect_attempts, calls, pendingHandlers, handlers,
                   pendingReconnects, sleeping, last_sleep>>
    /\ UNCHANGED <<qvars, rvars, cvars, evars, xvars>>

RECURSIVE TotalSent(_)
TotalSent(cs) == IF cs = <<>> THEN 0 ELSE Head(cs).sent + TotalSent(Tail(cs))

\* the server sends a message on an open connection
ServerSend(c) ==
    /\ conns[c].closed = "open"
    /\ conns[c].inbox = None
    /\ TotalSent(conns) < MaxServerMsgs
    /\ \E m \in ServerMessages :
          conns' = [conns EXCEPT ![c].inbox = m, ![c].sent = @ + 1]
    /\ UNCHANGED <<websocket, connected, message_id, active_subscriptions,
                   reconnect_attempts, should_reconnect, calls,
                   pendingHandlers, handlers, pendingReconnects, sleeping, last_sleep>>
    /\ UNCHANGED <<qvars, rvars, cvars, evars, xvars>>

\* the connection closes: with a normal close code, or abnormally
ServerClose(c) ==
    /\ conns[c].closed = "open"
    /\ \E how \in {"ok", "error"} :
          conns' = [conns EXCEPT ![c].closed = how]
    /\ UNCHANGED <<websocket, connected, message_id, active_subscriptions,
                   reconnect_attempts, should_reconnect, calls,
                   pendingHandlers, handlers, pendingReconnects, sleeping, last_sleep>>
    /\ UNCHANGED <<qvars, rvars, cvars, evars, xvars>>

\* the @cached("services") handler stores the service listing
ServicesSet ==
    /\ cacheCalls < MaxCacheCalls
    /\ ~TTLContains(caches["services"], s_get_services)
    /\ caches' = cache_set(caches, "services", s_get_services, "old")
    /\ cacheCalls' = cacheCalls + 1
    /\ UNCHANGED monotonic
    /\ UNCHANGED <<qvars, rvars, evars, wvars, xvars>>

(***************************************************************************)
(* get_states() on the client, and the result messages of the server.      *)
(* A result message is the type "result" in the inbox with its id in       *)
(* result_id.  recv() while another coroutine waits in recv() on the same  *)
(* connection raises (websockets allows one reader).                       *)
(***************************************************************************)
Request(id, c, state) == [id |-> id, conn |-> c, state |-> state]

\* get_states() up to its _wait_for_response: not connected raises, a send
\* on a closed connection raises
GetStates ==
    /\ Len(requests) < MaxWsRequests
    /\ calls # <<>> /\ calls[1].pc = "done"
    /\ IF ~connected
       THEN /\ requests' = Append(requests, Request(0, NoConn, "failed"))
            /\ UNCHANGED message_id
       ELSE /\ message_id' = NextId(message_id)
            /\ requests' =
                  Append(requests,
                         Request(message_id, websocket,
                                 IF conns[websocket].closed = "open"
                                 THEN "waiting" ELSE "failed"))
    /\ UNCHANGED <<websocket, connected, active_subscriptions,
                   reconnect_attempts, should_reconnect, conns, calls,
                   pendingHandlers, handlers, pendingReconnects, sleeping,
                   last_sleep, subscriptions>>
    /\ UNCHANGED <<qvars, rvars, cvars, evars>>

\* call_service(domain, service, service_data) up to its
\* _wait_for_response: the same steps as get_states() with another message
CallService ==
    /\ Len(requests) < MaxWsRequests
    /\ calls # <<>> /\ calls[1].pc = "done"
    /\ IF ~connected
       THEN /\ requests' = Append(requests, Request(0, NoConn, "failed"))
            /\ UNCHANGED message_id
       ELSE /\ message_id' = NextId(message_id)
            /\ requests' =
                  Append(requests,
                         Request(message_id, websocket,
                                 IF conns[websocket].closed = "open"
                                 THEN "waiting" ELSE "failed"))
    /\ UNCHANGED <<websocket, connected, active_subscriptions,
                   reconnect_attempts, should_reconnect, conns, calls,
                   pendingHandlers, handlers, pendingReconnects, sleeping,
                   last_sleep, subscriptions>>
    /\ UNCHANGED <<qvars, rvars, cvars, evars>>

\* a _message_handler is suspended in the iteration of connection c
HandlerReads(c) == \E h \in 1..Len(handlers) : handlers[h] = c

\* data.get("id") == message_id
IsResponse(m, id, message) == m = "result" /\ id = message

\* one round of the loop of _wait_for_response: recv() on self.websocket
\* raises, or returns a message that is or is not the response; a message
\* that is not is dropped and the loop goes on
WaitRecv(r) ==
    /\ requests[r].state = "waiting"
    /\ websocket # NoConn
    /\ IF HandlerReads(websocket) \/ RecvRaises(websocket)
       THEN /\ requests' = [requests EXCEPT ![r].state = "failed"]
            /\ UNCHANGED conns
       ELSE /\ HasMessage(websocket)
            /\ conns' = [conns EXCEPT ![websocket].inbox = None,
                                      ![websocket].result_id = 0]
            /\ requests' =
                  [requests EXCEPT ![r].state =
                      IF conns[websocket].inbox = "not_json" THEN "failed"
                      ELSE IF IsResponse(conns[websocket].inbox,
                                         conns[websocket].result_id,
                                         requests[r].id)
                           THEN "delivered" ELSE "waiting"]
    /\ UNCHANGED <<websocket, connected, message_id, active_subscriptions,
                   reconnect_attempts, should_reconnect, calls,
                   pendingHandlers, handlers, pendingReconnects, sleeping,
                   last_sleep, subscriptions>>
    /\ UNCHANGED <<qvars, rvars, cvars, evars>>

\* the ten seconds of _wait_for_response pass without the response
WaitTimeout(r) ==
    /\ requests[r].state = "waiting"
    /\ requests' = [requests EXCEPT ![r].state = "failed"]
    /\ UNCHANGED <<qvars, rvars, cvars, evars, wvars, subscriptions>>

\* the server answers a message of the client: a result with one of the
\* ids the client has used on an authenticated connection
ServerResult(c) ==
    /\ conns[c].closed = "open"
    /\ conns[c].inbox = None
    /\ conns[c].authed
    /\ TotalSent(conns) < MaxServerMsgs
    /\ \E id \in 1..(message_id - 1) :
          conns' = [conns EXCEPT ![c].inbox = "result", ![c].result_id = id,
                                ![c].sent = @ + 1]
    /\ UNCHANGED <<websocket, connected, message_id, active_subscriptions,
                   reconnect_attempts, should_reconnect, calls,
                   pendingHandlers, handlers, pendingReconnects, sleeping,
                   last_sleep>>
    /\ UNCHANGED <<qvars, rvars, cvars, evars, xvars>>

\* the callbacks a caller passes to subscribe_events; "None" is no callback
Callbacks == {"None", "callback"}

\* dict assignment self.subscriptions[message_id] = callback
SetCallback(subs, id, callback) ==
    [n \in DOMAIN subs \cup {id} |-> IF n = id THEN callback ELSE subs[n]]

\* subscribe_events(event_type, callback) called on the client from outside
\* connect(): not connected raises, a send on a closed connection raises
\* after the id was taken, otherwise the callback, if one was passed, and
\* the subscription are recorded
SubscribeEvents(event_type, callback) ==
    /\ message_id < MaxMessageId
    /\ calls # <<>> /\ calls[1].pc = "done"
    /\ IF ~connected
       THEN UNCHANGED <<message_id, subscriptions, active_subscriptions>>
       ELSE /\ message_id' = NextId(message_id)
            /\ IF conns[websocket].closed # "open"
               THEN UNCHANGED <<subscriptions, active_subscriptions>>
               ELSE /\ subscriptions' =
                          IF callback # "None"
                          THEN SetCallback(subscriptions, message_id, callback)
                          ELSE subscriptions
                    /\ active_subscriptions' =
                          SetSubscription(active_subscriptions, event_type,
                                          message_id)
    /\ UNCHANGED <<websocket, connected, reconnect_attempts,
                   should_reconnect, conns, calls, pendingHandlers, handlers,
                   pendingReconnects, sleeping, last_sleep, requests>>
    /\ UNCHANGED <<qvars, rvars, cvars, evars>>

NextConnect ==
    \/ StartupConnect
    \/ \E i \in 1..Len(calls) : Open(i)
    \/ \E i \in 1..Len(calls) : RecvAuthRequired(i)
    \/ \E i \in 1..Len(calls) : RecvAuthResult(i)
    \/ \E i \in 1..Len(calls), k \in 1..3 : SendSubscribe(i, k)
    \/ HandlerStart
    \/ \E h \in 1..Len(handlers) : HandlerMessage(h)
    \/ \E h \in 1..Len(handlers) : HandlerClosed(h)
    \/ \E h \in 1..Len(handlers) : HandlerRaises(h)
    \/ ReconnectStart
    \/ ReconnectWake
    \/ Disconnect
    \/ \E c \in 1..Len(conns) : ServerSend(c)
    \/ \E c \in 1..Len(conns) : ServerClose(c)

(***************************************************************************)
(* PriorityQueue.__init__                                                  *)
(***************************************************************************)
InitQueue ==
    /\ max_concurrent \in {1, MaxSlots}
    /\ queue = <<>>
    /\ running_tasks = 0
    /\ semaphore = max_concurrent
    /\ _shutdown = FALSE
    /\ executing = {}
    /\ spawned = 0
    /\ units = <<>>
    /\ ret = <<>>
    /\ started = <<>>
    /\ pendingAt = <<>>
    /\ now = 0

(***************************************************************************)
(* The test at the head of _process_queue.                                 *)
(***************************************************************************)
NothingToDoUngated(q) == q = <<>>

NothingToDo(q) == q = <<>> \/ running_tasks >= max_concurrent

(***************************************************************************)
(* _process_queue up to its first suspension, entered with the heap q by   *)
(* the add_request call `caller` (0: a task made by create_task, whose     *)
(* return value nobody reads).  rets is the return record to extend.       *)
(* semaphore.acquire() does not suspend while the value is positive, which *)
(* SemaphoreInSync shows it is whenever running_tasks < max_concurrent: so *)
(* the pop, the acquire and the increment are one step.                    *)
(***************************************************************************)
ProcessQueueFrom(q, caller, rets, begun) ==
    IF NothingToDo(q)
    THEN /\ queue' = q
         /\ ret' = IF caller # 0 THEN [rets EXCEPT ![caller] = [kind |-> "None"]]
                   ELSE rets
         /\ started' = begun
         /\ UNCHANGED <<running_tasks, semaphore, executing>>
    ELSE LET popped == heappop(q)
         IN  /\ queue' = popped[2]
             /\ semaphore' = semaphore - 1
             /\ running_tasks' = running_tasks + 1
             /\ executing' = executing \cup
                                {[task |-> popped[1].id, caller |-> caller]}
             /\ started' = Append(begun, popped[1].id)
             /\ ret' = rets

ProcessQueue(q, caller, rets) == ProcessQueueFrom(q, caller, rets, started)

(***************************************************************************)
(* add_request(func, priority, timeout): the call number Len(units)+1.     *)
(***************************************************************************)
\* timeout=None
NoTimeout == 0

\* a test of the flag that never refuses
IsShutDownNever == FALSE

\* if self._shutdown
IsShutDown == _shutdown

AddRequest(p, timeout) ==
    /\ LET id == Len(units) + 1
           task_wrapper == [id |-> id, priority |-> p, created_at |-> now,
                            timeout |-> timeout]
       IN  /\ units' = Append(units, task_wrapper)
           /\ IF IsShutDown
              THEN /\ ret' = Append(ret, [kind |-> "RuntimeError"])
                   /\ pendingAt' = Append(pendingAt, {})
                   /\ UNCHANGED <<queue, running_tasks, semaphore, executing,
                                  started>>
              ELSE /\ pendingAt' = Append(pendingAt, Ids(queue) \cup {id})
                   /\ ProcessQueue(heappush(queue, task_wrapper), id,
                                   Append(ret, [kind |-> "waiting"]))
    /\ UNCHANGED <<max_concurrent, _shutdown, spawned, script, now>>
    /\ UNCHANGED <<rvars, cvars, evars, wvars, xvars>>

(***************************************************************************)
(* The callable of a running unit completes (result or exception); the     *)
(* finally block of _process_queue runs and the value goes to whoever      *)
(* awaits this invocation.                                                 *)
(***************************************************************************)
Outcomes == {"result", "exception", "TimeoutError"}

\* if task_wrapper.timeout: only then asyncio.wait_for guards the callable
HasTimeout(task_wrapper) == task_wrapper.timeout # NoTimeout

\* if self.queue and not self._shutdown: a further _process_queue task is
\* created
ContinuesNever(q) == FALSE

Continues(q) == q # <<>> /\ ~_shutdown

Finish(e, outcome) ==
    /\ e \in executing
    /\ outcome = "TimeoutError" => HasTimeout(units[e.task])
    /\ executing' = executing \ {e}
    /\ running_tasks' = running_tasks - 1
    /\ semaphore' = semaphore + 1
    /\ spawned' = IF Continues(queue) THEN spawned + 1 ELSE spawned
    /\ ret' = IF e.caller # 0
              THEN [ret EXCEPT ![e.caller] =
                        [kind |-> outcome, unit |-> e.task]]
              ELSE ret
    /\ UNCHANGED <<max_concurrent, queue, _shutdown, units, started,
                   pendingAt, script, now>>
    /\ UNCHANGED <<rvars, cvars, evars, wvars, xvars>>

(***************************************************************************)
(* A task made by asyncio.create_task(self._process_queue()) gets to run.  *)
(***************************************************************************)
RunSpawned ==
    /\ spawned > 0
    /\ spawned' = spawned - 1
    /\ ProcessQueue(queue, 0, ret)
    /\ UNCHANGED <<max_concurrent, _shutdown, units, pendingAt, script, now>>
    /\ UNCHANGED <<rvars, cvars, evars, wvars, xvars>>

Shutdown ==
    /\ ~_shutdown
    /\ _shutdown' = TRUE
    /\ UNCHANGED <<max_concurrent, queue, running_tasks, semaphore, executing,
                   spawned, units, ret, started, pendingAt, script, now>>
    /\ UNCHANGED <<rvars, cvars, evars, wvars, xvars>>

TickQueue ==
    /\ now < MaxClockQ
    /\ now' = now + 1
    /\ UNCHANGED <<max_concurrent, queue, running_tasks, semaphore,
                   _shutdown, executing, spawned, units, ret, started,
                   pendingAt, script>>
    /\ UNCHANGED <<rvars, cvars, evars, wvars, xvars>>

\* a caller submitting any priority
Submit ==
    \E p \in Priority : Len(units) < MaxUnits /\ AddRequest(p, NoTimeout)

\* a caller submitting the priorities of the script, in order
SubmitScripted ==
    /\ Len(units) < Len(script)
    /\ AddRequest(script[Len(units) + 1], NoTimeout)

NextQueue ==
    \/ Submit
    \/ \E e \in executing, o \in Outcomes : Finish(e, o)
    \/ RunSpawned
    \/ Shutdown
    \/ TickQueue

NextScripted ==
    \/ SubmitScripted
    \/ \E e \in executing, o \in Outcomes : Finish(e, o)
    \/ RunSpawned
    \/ Shutdown
    \/ TickQueue

\* any submissions, any interleaving
InitAny == InitQueue /\ script = <<>> /\ InitRateLimiter /\ InitNoEvents

SpecQueue == InitAny /\ [][NextQueue]_vars

\* P3: LOW, HIGH, NORMAL submitted to a scheduler of one slot that is idle,
\* or that an earlier unit of any priority occupies
P3Scripts ==
    {<<LOW, HIGH, NORMAL>>} \cup {<<p, LOW, HIGH, NORMAL>> : p \in Priority}

InitP3 ==
    /\ InitQueue /\ max_concurrent = 1 /\ script \in P3Scripts
    /\ InitRateLimiter /\ InitNoEvents

SpecP3 == InitP3 /\ [][NextScripted]_vars

\* P4: units of one priority band only
InitFifo ==
    /\ InitQueue /\ script \in {[i \in 1..FifoUnits |-> p] : p \in Priority}
    /\ InitRateLimiter /\ InitNoEvents

SpecFifo == InitFifo /\ [][NextScripted]_vars

(***************************************************************************)
(* Submissions without end.  A unit is never reused, but the model numbers *)
(* units by the add_request call that made them: here a caller whose call  *)
(* has returned and whose unit has run to its end calls add_request again, *)
(* and the new unit takes over the number of the old one.                  *)
(***************************************************************************)
Tasks(running) == {e.task : e \in running}

\* the unit numbered id has been executed and its add_request has returned
Terminal(id) ==
    /\ id \in 1..Len(units)
    /\ id \notin Ids(queue)
    /\ id \notin Tasks(executing)
    /\ \A e \in executing : e.caller # id
    /\ ret[id].kind # "waiting"

AddRequestAgain(id, p, timeout) ==
    /\ Terminal(id)
    /\ ~IsShutDown
    /\ LET task_wrapper == [id |-> id, priority |-> p, created_at |-> now,
                            timeout |-> timeout]
       IN  /\ units' = [units EXCEPT ![id] = task_wrapper]
           /\ pendingAt' = [pendingAt EXCEPT ![id] = Ids(queue) \cup {id}]
           /\ ProcessQueueFrom(heappush(queue, task_wrapper), id,
                               [ret EXCEPT ![id] = [kind |-> "waiting"]],
                               SelectSeq(started, LAMBDA u : u # id))
    /\ UNCHANGED <<max_concurrent, _shutdown, spawned, script, now>>
    /\ UNCHANGED <<rvars, cvars, evars, wvars, xvars>>

\* the priorities submitted without end: two bands
LivePriorities == {HIGH, LOW}

SubmitFirst ==
    \E p \in LivePriorities : Len(units) < LiveUnits /\ AddRequest(p, NoTimeout)

SubmitAgain ==
    /\ spawned <= MaxSpawned
    /\ \E id \in 1..LiveUnits, p \in LivePriorities :
          AddRequestAgain(id, p, NoTimeout)

\* shutdown() is never called
NextLive ==
    \/ SubmitFirst
    \/ SubmitAgain
    \/ \E e \in executing, o \in Outcomes : Finish(e, o)
    \/ RunSpawned

\* every callable terminates, and the event loop runs every task that
\* create_task has made
Fairness ==
    /\ WF_vars(RunSpawned)
    /\ \A t \in 1..LiveUnits, caller \in 0..LiveUnits :
          WF_vars(\E o \in Outcomes :
                     Finish([task |-> t, caller |-> caller], o))

SpecLive == InitAny /\ [][NextLive]_vars /\ Fairness

\* the semaphore's value is the number of free slots, so acquire() in
\* _process_queue never suspends
SemaphoreInSync == semaphore = max_concurrent - running_tasks

(***************************************************************************)
(* get_stats()                                                             *)
(***************************************************************************)
get_stats ==
    [queue_size |-> Len(queue),
     running_tasks |-> running_tasks,
     max_concurrent |-> max_concurrent,
     available_slots |-> max_concurrent - running_tasks]

\* position of unit u in the order of execution
Pos(u) == CHOOSE i \in 1..Len(started) : started[i] = u
Started == {started[i] : i \in 1..Len(started)}
Running == {e.task : e \in executing}

(***************************************************************************)
(* C1: add_request returns to its caller only after the unit enqueued by   *)
(* that call has run to completion, and what it returns or raises is the   *)
(* outcome of that same unit.                                              *)
(***************************************************************************)
C1_SubmitReturnsOwnOutcome ==
    \A i \in 1..Len(ret) :
        ret[i].kind \notin {"waiting", "RuntimeError"}
            => /\ ret[i].kind \in Outcomes
               /\ ret[i].unit = i
               /\ i \in Started \ Running

(***************************************************************************)
(* C2: whenever a unit is taken from the pending queue to execute, no unit *)
(* still pending has a lower priority value, and no pending unit of the    *)
(* same priority has an earlier creation timestamp.                        *)
(***************************************************************************)
C2_DequeueTakesMinimum ==
    [][Len(started') > Len(started)
         => LET t == units'[started'[Len(started')]]
            IN  \A i \in 1..Len(queue') :
                    /\ queue'[i].priority >= t.priority
                    /\ queue'[i].priority = t.priority
                          => queue'[i].created_at >= t.created_at]_vars

\* a unit was taken ahead of an earlier-submitted one that is still pending
C2_Witness ==
    /\ started # <<>>
    /\ \E i \in 1..Len(queue) :
          /\ queue[i].id < started[Len(started)]
          /\ queue[i].priority > units[started[Len(started)]].priority

(***************************************************************************)
(* C3: with a concurrency limit of 1, units submitted in the order LOW,    *)
(* HIGH, NORMAL execute in the order HIGH, NORMAL, LOW.                    *)
(* The three are the last three units of the script.                       *)
(***************************************************************************)
P3Low == Len(script) - 2
P3High == Len(script) - 1
P3Normal == Len(script)

\* the claim as stated: whatever the scheduler was doing at submission
C3_Original ==
    {P3Low, P3High, P3Normal} \subseteq Started
        => Pos(P3High) < Pos(P3Normal) /\ Pos(P3Normal) < Pos(P3Low)

\* all three were in the pending queue when NORMAL was pushed
P3PendingTogether ==
    /\ Len(pendingAt) = Len(script)
    /\ {P3Low, P3High, P3Normal} \subseteq pendingAt[P3Normal]

\* C3 as amended: units submitted LOW, HIGH, NORMAL that are pending
\* together (the one slot being occupied while they are submitted) start in
\* the order HIGH, NORMAL, LOW
C3_PendingTogetherByPriority ==
    P3PendingTogether
        => /\ P3Normal \in Started
                => P3High \in Started /\ Pos(P3High) < Pos(P3Normal)
           /\ P3Low \in Started
                => P3Normal \in Started /\ Pos(P3Normal) < Pos(P3Low)

C3_Witness ==
    /\ P3PendingTogether
    /\ {P3Low, P3High, P3Normal} \subseteq Started

(***************************************************************************)
(* C4: of two units submitted with equal priority, whatever clock values   *)
(* they are stamped with, the one submitted first starts executing first.  *)
(***************************************************************************)
C4_FifoWithinPriority ==
    \A i, j \in 1..Len(units) :
        (i < j /\ units[i].priority = units[j].priority /\ j \in Started)
            => i \in Started /\ Pos(i) < Pos(j)

(***************************************************************************)
(* C5: the number of executing units is at least 0 and at most             *)
(* max_concurrent, so get_stats never reports negative available_slots.    *)
(***************************************************************************)
C5_RunningWithinLimit ==
    /\ running_tasks >= 0
    /\ running_tasks <= max_concurrent
    /\ running_tasks = Cardinality(executing)
    /\ get_stats.available_slots >= 0

\* every slot taken, a unit waiting, and slots already released and retaken
C5_Witness ==
    /\ running_tasks = max_concurrent
    /\ get_stats.available_slots = 0
    /\ queue # <<>>
    /\ Len(started) > max_concurrent

(***************************************************************************)
(* The admission gate's rate limiter on its own.                           *)
(***************************************************************************)
InitRate ==
    /\ InitQueue /\ max_concurrent = 1 /\ script = <<>>
    /\ InitRateLimiter /\ InitNoEvents

SpecRate == InitRate /\ [][NextRate]_vars

SpecAuth == InitRate /\ [][NextAuth]_vars

\* the is_allowed calls for key k that returned True
Accepted(k) == {i \in 1..Len(checks[k]) : checks[k][i].allowed}

(***************************************************************************)
(* C6: for every rate-limit key, at every instant, the number of requests  *)
(* accepted by is_allowed with timestamps newer than now - window_seconds  *)
(* is at most max_requests, also with several checks at one clock value.   *)
(***************************************************************************)
C6_AcceptedInWindowBounded ==
    \A k \in RateKeys :
        Cardinality({i \in Accepted(k) : checks[k][i].t > now - WindowSeconds})
            <= MaxRequests

\* a key at its maximum through checks made at one clock value, with a
\* further check at that value refused
C6_Witness ==
    \E k \in RateKeys :
        /\ Cardinality({i \in Accepted(k) : checks[k][i].t = now}) = MaxRequests
        /\ \E i \in 1..Len(checks[k]) :
              checks[k][i].t = now /\ ~checks[k][i].allowed

(***************************************************************************)
(* C7: for one key, the first max_requests checks within window_seconds    *)
(* are Allowed; the (max_requests+1)-th check within the same window is    *)
(* RateLimited; once window_seconds have elapsed with no further request,  *)
(* the next check is Allowed again.                                        *)
(***************************************************************************)
\* checks for k before the i-th whose clock is within the window of the i-th
EarlierInWindow(k, i) ==
    {j \in 1..(i - 1) : checks[k][j].t > checks[k][i].t - WindowSeconds}

C7_SlidingWindow ==
    \A k \in RateKeys : \A i \in 1..Len(checks[k]) :
        \* at most max_requests - 1 checks before it in its window: Allowed
        /\ Cardinality(EarlierInWindow(k, i)) < MaxRequests
              => checks[k][i].allowed
        \* max_requests Allowed checks before it in its window: RateLimited
        /\ Cardinality(EarlierInWindow(k, i) \cap Accepted(k)) >= MaxRequests
              => ~checks[k][i].allowed
        \* window_seconds elapsed since every earlier check: Allowed
        /\ (\A j \in 1..(i - 1) : checks[k][i].t - checks[k][j].t >= WindowSeconds)
              => checks[k][i].allowed

\* max_requests Allowed, the next one RateLimited in the same window, and
\* the one made exactly window_seconds after the last of them Allowed
C7_Witness ==
    \E k \in RateKeys :
        /\ Len(checks[k]) = MaxRequests + 2
        /\ \A i \in 1..MaxRequests : checks[k][i].allowed
        /\ ~checks[k][MaxRequests + 1].allowed
        /\ checks[k][MaxRequests + 1].t - checks[k][1].t < WindowSeconds
        /\ checks[k][MaxRequests + 2].allowed
        /\ checks[k][MaxRequests + 2].t - checks[k][MaxRequests + 1].t
              = WindowSeconds

(***************************************************************************)
(* The event handler and the cache.                                        *)
(***************************************************************************)
InitEvents ==
    /\ InitQueue /\ max_concurrent = 1 /\ script = <<>>
    /\ InitRateLimiter
    /\ InitCaches
    /\ InitClient
    /\ settings \in SettingsChoices
    /\ events \in P7Scripts
    /\ handled = 0
    /\ response = NoResponse

SpecEvents == InitEvents /\ [][NextEvents]_vars

SpecFallback == InitEvents /\ [][NextFallback]_vars

\* filter settings: no inclusion prefix, one, or two of which one lies in a
\* domain that can be excluded
FilterChoices ==
    {[WEBSOCKET_UPDATE_CACHE |-> u, WEBSOCKET_FILTER_ENABLED |-> TRUE,
      WEBSOCKET_ENTITY_FILTERS |-> fs, WEBSOCKET_EXCLUDE_DOMAINS |-> ex,
      WEBSOCKET_RECONNECT_MAX_ATTEMPTS |-> 0] :
        u \in BOOLEAN,
        fs \in {{}, {s_light_}, {s_light_, s_camera_}},
        ex \in {{s_media_player}, {s_media_player, s_camera}}}

\* one state_changed event: any entity, with a new state or (the entity was
\* removed) with none
FilterScripts ==
    {<<[entity_id |-> e, new_state |-> v]>> : e \in Entities, v \in {"A", None}}

InitFilter ==
    /\ InitQueue /\ max_concurrent = 1 /\ script = <<>>
    /\ InitRateLimiter
    /\ InitCaches
    /\ InitClient
    /\ settings \in FilterChoices
    /\ events \in FilterScripts
    /\ handled = 0
    /\ response = NoResponse

NextFilter ==
    \/ _handle_state_changed
    \/ HttpSet
    \/ HttpGet
    \/ TickCache

SpecFilter == InitFilter /\ [][NextFilter]_vars

\* a state_changed event for an entity, then one without an entity id, or
\* with a null new_state (the entity was removed), or without either
RemovedScripts ==
    {<<[entity_id |-> e, new_state |-> "A"], [entity_id |-> x, new_state |-> v]>> :
        e \in Entities, x \in Entities \cup {NoEntity}, v \in {"B", None}}
        \ {<<[entity_id |-> e, new_state |-> "A"], [entity_id |-> x, new_state |-> "B"]>> :
              e \in Entities, x \in Entities}

InitRemoved ==
    /\ InitQueue /\ max_concurrent = 1 /\ script = <<>>
    /\ InitRateLimiter
    /\ InitCaches
    /\ InitClient
    /\ settings \in SettingsChoices
    /\ events \in RemovedScripts
    /\ handled = 0
    /\ response = NoResponse

SpecRemoved == InitRemoved /\ [][NextFilter]_vars

\* the event the handler takes in this step, and whether it reaches the cache
HandlesUnfiltered(n) ==
    /\ handled = n - 1
    /\ handled' = n
    /\ ~Dropped(events[n])

\* C9: applying unfiltered state_changed events for one entity E with new
\* values A, B, C in that order leaves states[get_state:E] equal to C under
\* the update strategy and absent under the invalidate strategy, and leaves
\* get_all_states absent in both cases.
C9_LastValueWins ==
    [][HandlesUnfiltered(3) =>
          LET E == events[3].entity_id
              entry == cache_lookup(caches', "states", s_get_state_ \o E)
          IN  /\ settings.WEBSOCKET_UPDATE_CACHE => entry = "C"
              /\ ~settings.WEBSOCKET_UPDATE_CACHE => entry = None
              /\ cache_lookup(caches', "states", s_get_all_states) = None]_vars

\* A, B and C were applied for an unfiltered entity under the update strategy
\* and the entry reads C
C9_Witness ==
    /\ handled = 3
    /\ ~Dropped(events[3])
    /\ settings.WEBSOCKET_UPDATE_CACHE
    /\ cache_lookup(caches, "states", s_get_state_ \o events[3].entity_id) = "C"

\* C10: handling an unfiltered state_changed event for <domain>.<name>
\* removes get_all_states and every states-cache key that contains the
\* domain, under either strategy (the entity's own entry, which the update
\* strategy has just written, set aside).
C10_DomainKeysRemoved ==
    [][\A n \in 1..Len(events) :
          HandlesUnfiltered(n) =>
              LET E == events[n].entity_id
              IN  /\ s_get_all_states \notin TTLKeys(caches'["states"])
                  /\ \A key \in TTLKeys(caches'["states"]) :
                        Contains(SplitFirst(E), key) => key = s_get_state_ \o E]_vars

\* what the handler does remove: get_all_states and the keys that contain
\* group:<domain>
C10_GroupPatternKeysRemoved ==
    [][\A n \in 1..Len(events) :
          HandlesUnfiltered(n) =>
              LET E == events[n].entity_id
              IN  /\ s_get_all_states \notin TTLKeys(caches'["states"])
                  /\ \A key \in TTLKeys(caches'["states"]) :
                        ~Contains(s_group_ \o SplitFirst(E), key)]_vars

(***************************************************************************)
(* The handshake of connect().                                             *)
(***************************************************************************)
InitConnect ==
    /\ InitQueue /\ max_concurrent = 1 /\ script = <<>>
    /\ InitRateLimiter
    /\ InitCaches
    /\ InitClient
    /\ settings \in {[x EXCEPT !.WEBSOCKET_RECONNECT_MAX_ATTEMPTS = m] :
                        x \in {y \in SettingsChoices :
                                  /\ y.WEBSOCKET_UPDATE_CACHE
                                  /\ y.WEBSOCKET_FILTER_ENABLED
                                  /\ y.WEBSOCKET_ENTITY_FILTERS = {}},
                        m \in {0, 1}}
    /\ events = <<>>
    /\ handled = 0
    /\ response = NoResponse

SpecConnect == InitConnect /\ [][NextConnect]_vars

\* the client, with the HTTP layer filling the services cache beside it
NextDispatch ==
    \/ NextConnect
    \/ ServicesSet

SpecDispatch == InitConnect /\ [][NextDispatch]_vars

\* the client, with get_states() calls and the server's results
NextRequest ==
    \/ NextConnect
    \/ GetStates
    \/ \E r \in 1..Len(requests) : WaitRecv(r)
    \/ \E r \in 1..Len(requests) : WaitTimeout(r)
    \/ \E c \in 1..Len(conns) : ServerResult(c)

SpecRequest == InitConnect /\ [][NextRequest]_vars

\* the server sends the next message of the handshake on a connection
ServerGreets(c) ==
    /\ conns[c].closed = "open"
    /\ conns[c].inbox = None
    /\ conns[c].sent < 2
    /\ conns' = [conns EXCEPT ![c].inbox = IF conns[c].sent = 0
                                           THEN "auth_required" ELSE "auth_ok",
                              ![c].sent = @ + 1]
    /\ UNCHANGED <<websocket, connected, message_id, active_subscriptions,
                   reconnect_attempts, should_reconnect, calls,
                   pendingHandlers, handlers, pendingReconnects, sleeping,
                   last_sleep>>
    /\ UNCHANGED <<qvars, rvars, cvars, evars, xvars>>

\* an authenticated connection is lost
ServerDrops(c) ==
    /\ conns[c].authed
    /\ ServerClose(c)
    /\ conns'[c].closed = "error"

\* the client with every operation that takes a message id, against a
\* server that accepts each connection, completes its handshake and may
\* drop it afterwards
NextIds ==
    \/ StartupConnect
    \/ \E i \in 1..Len(calls) : Open(i) /\ websocket' # websocket
    \/ \E i \in 1..Len(calls) : RecvAuthRequired(i)
    \/ \E i \in 1..Len(calls) : RecvAuthResult(i)
    \/ \E i \in 1..Len(calls), k \in 1..3 : SendSubscribe(i, k)
    \/ HandlerStart
    \/ \E h \in 1..Len(handlers) : HandlerClosed(h)
    \/ ReconnectWake
    \/ \E c \in 1..Len(conns) : ServerGreets(c)
    \/ \E c \in 1..Len(conns) : ServerDrops(c)
    \/ \E callback \in Callbacks : SubscribeEvents(EventTypes[1], callback)
    \/ GetStates
    \/ CallService

\* the reconnection loop with the default setting: no limit of attempts
InitIds ==
    /\ InitConnect
    /\ settings.WEBSOCKET_RECONNECT_MAX_ATTEMPTS = 0

SpecIds == InitIds /\ [][NextIds]_vars

NextSubscribe ==
    \/ NextConnect
    \/ \E event_type \in {EventTypes[1], EventTypes[2]},
          callback \in Callbacks : SubscribeEvents(event_type, callback)

SpecSubscribe == InitConnect /\ [][NextSubscribe]_vars

\* C8: connect() returns false if the first message it received is not
\* auth_required, or if the message it received after sending the auth
\* message is not auth_ok; it returns true only when auth_ok was received in
\* that handshake, and is_connected() becomes true only in the step in which
\* a connect() call receives auth_ok.
C8_HandshakeDecidesResult ==
    /\ [](\A i \in 1..Len(calls) :
             calls[i].pc = "done" =>
                 /\ calls[i].first # "auth_required" => calls[i].result = FALSE
                 /\ calls[i].second # "auth_ok" => calls[i].result = FALSE
                 /\ calls[i].result = TRUE => calls[i].second = "auth_ok")
    /\ [][(~is_connected /\ IsConnected(connected', websocket')) =>
             \E i \in 1..Len(calls) :
                 /\ calls[i].pc = "recv2"
                 /\ calls'[i].second = "auth_ok"]_vars

\* a connect() call received auth_required, then auth_ok, and returned true
\* with is_connected() true
C8_Witness ==
    \E i \in 1..Len(calls) :
        /\ calls[i].pc = "done"
        /\ calls[i].first = "auth_required"
        /\ calls[i].second = "auth_ok"
        /\ calls[i].result = TRUE
        /\ is_connected

\* the dispatch loop takes message m off a connection in this step
DispatchReceives(m) ==
    /\ Len(calls') = Len(calls)
    /\ \A i \in 1..Len(calls) : calls'[i].pc = calls[i].pc
    /\ \E c \in 1..Len(conns) :
          /\ conns[c].inbox = m
          /\ conns'[c].inbox = None

\* C11: whenever the dispatch loop receives an event message whose
\* event_type is service_registered or service_removed, the services cache
\* is empty when the loop goes on to the next message.
C11_ServiceEventClearsServices ==
    [][DispatchReceives("service_event") =>
          TTLKeys(caches'["services"]) = {}]_vars

\* the cached get_state handler answers a lookup of entity_id in this step
LooksUp(entity_id) ==
    /\ response'.call = cacheCalls + 1
    /\ response'.entity_id = entity_id

\* C12: under the update strategy, once an unfiltered state_changed event
\* for E with new value V has been applied and while the entry it wrote is
\* still in the cache, a lookup of E through the cached get_state handler is
\* answered with V from the cache, without an upstream call.
C12_LookupServedFromEventEntry ==
    [][\A E \in Entities :
          (/\ LooksUp(E)
           /\ settings.WEBSOCKET_UPDATE_CACHE
           /\ handled > 0
           /\ events[handled].entity_id = E
           /\ ~Dropped(events[handled])
           /\ cache_lookup(caches, "states", s_get_state_ \o E)
                 = events[handled].new_state)
          => /\ ~response'.upstream
             /\ response'.value = events[handled].new_state]_vars

\* a dispatch loop ends in this step
DispatchEnds == Len(handlers') < Len(handlers)

\* _attempt_reconnect, called now, would go on to sleep and connect
MayAttempt ==
    \/ settings.WEBSOCKET_RECONNECT_MAX_ATTEMPTS = 0
    \/ reconnect_attempts < settings.WEBSOCKET_RECONNECT_MAX_ATTEMPTS

\* C13: whenever the dispatch loop of an authenticated client ends, because
\* the transport closed (for any reason) or because the loop raised, the
\* connected flag is false afterwards and, unless should_reconnect is false,
\* a reconnection attempt has been started.
C13_LoopEndDisconnectsAndReconnects ==
    [][DispatchEnds =>
          /\ ~connected'
          /\ (should_reconnect /\ MayAttempt) => sleeping' = sleeping + 1]_vars

\* C15: reconnection attempt number n, counting from 1 after the last
\* successful authentication, sleeps for a duration in [b, 1.1 * b] with
\* b = min(2^n, WEBSOCKET_RECONNECT_MAX_DELAY) before it calls connect(), and
\* each attempt uses the number after the previous one's.
C15_BackoffDelay ==
    [][sleeping' > sleeping =>
          LET n == reconnect_attempts + 1
              b == IF 2^n < MaxDelay THEN 2^n ELSE MaxDelay
          IN  /\ reconnect_attempts' = n
              /\ last_sleep'.n = n
              /\ 10 * b <= last_sleep'.wait
              /\ last_sleep'.wait <= 11 * b]_vars

\* the second attempt in a row sleeps for the capped delay plus the largest
\* jitter
C15_Witness ==
    /\ sleeping > 0
    /\ last_sleep.n = 2
    /\ last_sleep.wait = 11 * MaxDelay

\* the reconnection loop calls connect() in this step
LoopConnects ==
    /\ Len(calls') = Len(calls) + 1
    /\ calls'[Len(calls')].caller = "reconnect"

\* the connect() call i the reconnection loop made returns False in this step
LoopConnectFails(i) ==
    /\ calls[i].caller = "reconnect"
    /\ calls[i].pc # "done"
    /\ calls'[i].pc = "done"
    /\ calls'[i].result = FALSE

ShutdownDone ==
    /\ ~should_reconnect
    /\ \E c \in 1..Len(conns) : conns[c].disconnected

\* C16: once should_reconnect is false and disconnect() has closed the
\* transport, the client makes no further connect() call, not even out of a
\* backoff sleep that was in progress, and never becomes connected again.
C16_ShutdownCancelsReconnection ==
    [][ShutdownDone =>
          /\ Len(calls') = Len(calls)
          /\ connected' => connected]_vars

\* connect() call i returns False in this step
ConnectFails(i) ==
    /\ calls[i].pc # "done"
    /\ calls'[i].pc = "done"
    /\ calls'[i].result = FALSE

\* C17: is_connected() is true only while the current transport has
\* completed the handshake with auth_ok; it is false after a connect() call
\* has returned failure and after the client has seen its transport close
\* (its dispatch loop has ended).
C17_IsConnectedMeansAuthenticated ==
    /\ [](is_connected => conns[websocket].authed)
    /\ [][\A i \in 1..Len(calls) :
             ConnectFails(i) => ~IsConnected(connected', websocket')]_vars
    /\ [][DispatchEnds => ~IsConnected(connected', websocket')]_vars

(***************************************************************************)
(* C18: for every named cache and key, CacheManager.get returns None when  *)
(* more than the cache's TTL has passed since the entry was last written,  *)
(* even though the entry was never deleted and is still stored; a value    *)
(* that get returns was written at most the TTL ago.                       *)
(***************************************************************************)
KeysOf(cache) == {cache[i].key : i \in 1..Len(cache)}

StoredKeys(cache_name) == KeysOf(caches[cache_name])

\* the entry of key is still stored, and older than the TTL of its cache
StalePastTtl(cache_name, key) ==
    \E i \in IndexOf(caches[cache_name], key) :
        monotonic - caches[cache_name][i].written > TtlOf(cache_name)

C18_GetNeverReturnsPastTtl ==
    \A cache_name \in CacheNames :
        \A key \in StoredKeys(cache_name) :
            LET value == cache_lookup(caches, cache_name, key)
            IN  /\ StalePastTtl(cache_name, key) => value = None
                /\ value # None
                       => \E i \in IndexOf(caches[cache_name], key) :
                              /\ caches[cache_name][i].value = value
                              /\ monotonic - caches[cache_name][i].written
                                     <= TtlOf(cache_name)

\* an entry that nobody deleted has outlived its TTL and get answers None
C18_Witness ==
    \E cache_name \in CacheNames :
        \E key \in StoredKeys(cache_name) :
            /\ StalePastTtl(cache_name, key)
            /\ cache_lookup(caches, cache_name, key) = None

(***************************************************************************)
(* The cache manager on its own: callers set and get keys of the named     *)
(* caches while the timer advances.                                        *)
(***************************************************************************)
CacheSet ==
    /\ cacheCalls < MaxCacheOps
    /\ \E cache_name \in {"states", "services"}, key \in HttpKeys :
          caches' = cache_set(caches, cache_name, key, "A")
    /\ cacheCalls' = cacheCalls + 1
    /\ UNCHANGED <<monotonic, settings, events, handled, response>>
    /\ UNCHANGED <<qvars, rvars, wvars, xvars>>

CacheGet ==
    /\ cacheCalls < MaxCacheOps
    /\ \E cache_name \in {"states", "services"}, key \in HttpKeys :
          /\ caches' = cache_get(caches, cache_name, key)
          /\ response' = [call |-> cacheCalls + 1, entity_id |-> key,
                          value |-> cache_lookup(caches, cache_name, key),
                          upstream |-> FALSE]
    /\ cacheCalls' = cacheCalls + 1
    /\ UNCHANGED <<monotonic, settings, events, handled>>
    /\ UNCHANGED <<qvars, rvars, wvars, xvars>>

NextCache ==
    \/ CacheSet
    \/ CacheGet
    \/ TickCache

InitCache ==
    /\ InitQueue /\ max_concurrent = 1 /\ script = <<>>
    /\ InitRateLimiter /\ InitNoEvents

SpecCache == InitCache /\ [][NextCache]_vars

\* a set of a key the cache does not hold, into a cache that holds
\* capacity-many entries, none of them expired
SetsIntoFull(cache_name, key) ==
    /\ cacheCalls' = cacheCalls + 1
    /\ Len(caches[cache_name]) = MaxSizeOf(cache_name)
    /\ Expire(caches[cache_name]) = caches[cache_name]
    /\ key \notin KeysOf(caches[cache_name])
    /\ key \in KeysOf(caches'[cache_name])

\* the key written first among the keys the cache holds
FirstInserted(cache) ==
    CHOOSE key \in KeysOf(cache) :
        \A i \in IndexOf(cache, key), j \in 1..Len(cache) :
            cache[i].ins <= cache[j].ins

\* C19: setting one more distinct key into a cache that is at capacity with
\* no entry expired evicts exactly the key that was inserted first and no
\* other, whichever keys get has read in between.
C19_EvictsFirstInserted ==
    [][\A cache_name \in CacheNames : \A key \in HttpKeys :
          SetsIntoFull(cache_name, key) =>
              KeysOf(caches'[cache_name]) =
                  (KeysOf(caches[cache_name])
                      \ {FirstInserted(caches[cache_name])}) \cup {key}]_vars

\* the middleware answers a request for path in this step
Serves(path) ==
    /\ served'.n = served.n + 1
    /\ served'.path = path

\* C20: a request whose path is one of the bypass endpoints (/health,
\* /metrics, /docs, /openapi.json, /api/v1/services/test, /status) is passed
\* to its handler whatever credential it carries, also none, and leaves the
\* rate-limit storage of every key unchanged.
C20_BypassSkipsAuthAndRateLimit ==
    [][\A path \in {"/health", "/metrics", "/docs", "/openapi.json",
                     "/api/v1/services/test", "/status"} :
          Serves(path) =>
              /\ served'.status = "call_next"
              /\ rate_limit_storage' = rate_limit_storage]_vars

\* a bypass request without credential was passed on while a key had
\* requests counted in its window
C20_Witness ==
    /\ served.path = "/health"
    /\ served.credential = "None"
    /\ served.status = "call_next"
    /\ \E k \in DOMAIN rate_limit_storage : sum(rate_limit_storage[k]) > 0

\* the middleware answers a request for path carrying credential
ServesWith(path, credential) ==
    /\ Serves(path)
    /\ served'.credential = credential

\* C21: a request to a path that is not a bypass endpoint reaches its
\* handler only if its bearer credential is equal to a member of the
\* configured API keys; without a credential, or with one that is not a
\* member (the beginning of a key included), the answer is 401, the handler
\* is not invoked and nothing is counted.
C21_OnlyExactKeysPass ==
    [][\A path \in Paths \ BypassPaths : \A credential \in Credentials :
          ServesWith(path, credential) =>
              /\ served'.status = "call_next" => credential \in {"key1", "key2"}
              /\ credential \notin {"key1", "key2"} =>
                     /\ served'.status = "401"
                     /\ rate_limit_storage' = rate_limit_storage]_vars

\* the beginning of a configured key was refused after that key had been
\* let through to a handler
C21_Witness ==
    /\ served.path = "/api/v1/states/all"
    /\ served.credential = "key"
    /\ served.status = "401"
    /\ "key1:10.0.0.1" \in DOMAIN rate_limit_storage
    /\ sum(rate_limit_storage["key1:10.0.0.1"]) > 0

\* the rate limiter rejects the request answered in this step
RateLimited(k) ==
    /\ served'.n = served.n + 1
    /\ Len(checks'[k]) = Len(checks[k]) + 1
    /\ ~checks'[k][Len(checks'[k])].allowed

\* C22: a request the rate limiter rejects is answered with 429 carrying
\* Retry-After equal to the window, its handler is not invoked, and the
\* rejection is reported with the identity.
C22_RejectionCarriesRetryAfter ==
    [][\A k \in RateKeys :
          RateLimited(k) =>
              /\ served'.status = "429"
              /\ served'.retry_after = WindowSeconds
              /\ served'.warned \o ":" \o client_ip = k]_vars

(***************************************************************************)
(* C23: if a unit's callable raises, the exception is raised to the        *)
(* submitter of that unit, the unit's slot is released (running_tasks goes *)
(* back by one), and the units still pending are taken up afterwards       *)
(* (unless the queue was shut down, a new _process_queue is scheduled).    *)
(***************************************************************************)
C23_FailureReachesSubmitter ==
    [][\A e \in executing :
          Finish(e, "exception") =>
              /\ ret'[e.task] = [kind |-> "exception", unit |-> e.task]
              /\ running_tasks' = running_tasks - 1
              /\ semaphore' = semaphore + 1
              /\ (queue' # <<>> /\ ~_shutdown) => spawned' = spawned + 1]_vars

(***************************************************************************)
(* Units submitted with and without a timeout, and shutdown().             *)
(***************************************************************************)
\* timeout=None (or 0, which _execute_task treats alike) and a positive one
Timeouts == {NoTimeout, 1}

SubmitTimed ==
    \E p \in {HIGH, NORMAL}, timeout \in Timeouts :
        Len(units) < MaxUnits /\ AddRequest(p, timeout)

NextTimeout ==
    \/ SubmitTimed
    \/ \E e \in executing, o \in Outcomes : Finish(e, o)
    \/ RunSpawned
    \/ Shutdown

SpecTimeout == InitAny /\ [][NextTimeout]_vars

(***************************************************************************)
(* C24: if a unit has a timeout and its callable does not complete within  *)
(* it, the timeout error is raised to the submitter of that unit and the   *)
(* unit's slot is released, so that a pending unit can start.              *)
(***************************************************************************)
C24_TimeoutReachesSubmitter ==
    [][\A e \in executing :
          Finish(e, "TimeoutError") =>
              /\ ret'[e.task] = [kind |-> "TimeoutError", unit |-> e.task]
              /\ running_tasks' = running_tasks - 1
              /\ semaphore' = semaphore + 1
              /\ (queue' # <<>> /\ ~_shutdown) => spawned' = spawned + 1]_vars

(***************************************************************************)
(* C25: after shutdown() every add_request call raises an error and leaves *)
(* the pending queue and the running count unchanged; the units executing  *)
(* at the time are not cancelled: each stays in execution until its        *)
(* callable completes, can complete, and releases its slot when it does.   *)
(***************************************************************************)
\* an add_request call is made in this step
Submits == Len(units') = Len(units) + 1

C25_ShutdownRefusesAndLetsRun ==
    /\ [][(_shutdown /\ Submits) =>
             /\ ret'[Len(units')].kind = "RuntimeError"
             /\ queue' = queue
             /\ running_tasks' = running_tasks
             /\ executing' = executing]_vars
    /\ [][_shutdown =>
             \A e \in executing :
                 \/ e \in executing'
                 \/ /\ running_tasks' = running_tasks - 1
                    /\ semaphore' = semaphore + 1
                    /\ e.caller # 0 => ret'[e.caller].kind \in Outcomes]_vars
    /\ [](_shutdown => \A e \in executing : ENABLED Finish(e, "result"))

\* after shutdown a submission was refused while a unit was executing and
\* another was pending, and the unit is still executing
C25_Witness ==
    /\ _shutdown
    /\ \E i \in 1..Len(ret) : ret[i].kind = "RuntimeError"
    /\ executing # {}
    /\ queue # <<>>

(***************************************************************************)
(* C26: while the client is authenticated, a result message whose id is    *)
(* the id of a get_states() call that awaits its response is delivered to  *)
(* that call, and a result message whose id nobody waits for is dropped    *)
(* without changing the client's or the caches' state.                     *)
(***************************************************************************)
\* the client takes a result message from connection c in this step
TakesResult(c) ==
    /\ connected
    /\ conns[c].inbox = "result"
    /\ conns'[c].inbox = None

Awaits(r, c) ==
    /\ requests[r].state = "waiting"
    /\ requests[r].conn = c
    /\ requests[r].id = conns[c].result_id

C26_ResultReachesWaiter ==
    [][\A c \in 1..Len(conns) :
          TakesResult(c) =>
              /\ \A r \in 1..Len(requests) :
                     Awaits(r, c) => requests'[r].state = "delivered"
              /\ (\A r \in 1..Len(requests) : ~Awaits(r, c)) =>
                     /\ caches' = caches
                     /\ connected' = connected
                     /\ websocket' = websocket
                     /\ message_id' = message_id
                     /\ active_subscriptions' = active_subscriptions
                     /\ reconnect_attempts' = reconnect_attempts
                     /\ \A r \in 1..Len(requests) :
                            requests'[r].state = "delivered"
                                => requests[r].state = "delivered"]_vars

\* the message ids under which the client holds a subscription record
Tracked ==
    {active_subscriptions[t] : t \in DOMAIN active_subscriptions}
        \cup DOMAIN subscriptions

\* C27: every subscribe_events that records a subscription adds one record
\* to those the client already tracks: the records of earlier subscriptions,
\* to the same event type or another, all remain and the tracked ids grow
\* by exactly the new one.
C27_SubscriptionsTrackedIndependently ==
    [][(active_subscriptions' # active_subscriptions
            \/ subscriptions' # subscriptions) =>
          /\ Tracked \subseteq Tracked'
          /\ Cardinality(Tracked') = Cardinality(Tracked) + 1]_vars

\* the values of the events handled before the latest one
EarlierValues ==
    {events[n].new_state : n \in 1..(handled - 1)} \ {events[handled].new_state}

WriteFailed ==
    /\ settings.WEBSOCKET_UPDATE_CACHE
    /\ handled < Len(events)
    /\ ~Dropped(events[handled + 1])
    /\ \E raises \in WriteFailures \ {"none"} : HandleWriteFails(raises)

\* C29: under the update strategy, when the cache write for an unfiltered
\* state_changed event raises, the handler deletes the entity's entry: after
\* the event is handled a lookup of get_state:<entity> finds nothing, so
\* not the value the entry held before the event.
C29_FailedWriteDeletesEntry ==
    [][WriteFailed =>
          cache_lookup(caches', "states",
                       s_get_state_ \o events[handled + 1].entity_id) = None]_vars

\* the write for the second event of an entity has failed after the first
\* was stored: the entry of the first is gone
C29_Witness ==
    /\ handled = 2
    /\ settings.WEBSOCKET_UPDATE_CACHE
    /\ ~Dropped(events[2])
    /\ cache_lookup(caches, "states", s_get_state_ \o events[2].entity_id) = None
    /\ monotonic = 0
    /\ cacheCalls = 0

\* the entity's domain is not excluded, and the inclusion list is empty or
\* holds a prefix of the entity id
PassesFilter(entity_id) ==
    /\ SplitFirst(entity_id) \notin settings.WEBSOCKET_EXCLUDE_DOMAINS
    /\ \/ settings.WEBSOCKET_ENTITY_FILTERS = {}
       \/ \E f \in settings.WEBSOCKET_ENTITY_FILTERS : StartsWith(entity_id, f)

\* the handler takes the n-th event with entity filtering enabled
HandlesFiltering(n) ==
    /\ handled = n - 1
    /\ handled' = n
    /\ settings.WEBSOCKET_FILTER_ENABLED

\* C30: with entity filtering enabled, an event whose entity's domain is
\* excluded, or whose entity id matches no prefix of a non-empty inclusion
\* list, leaves every cache unchanged, exclusion taking precedence over
\* inclusion; an event that passes and carries a new state is applied: the
\* entity's entry holds the new state under the update strategy and is
\* absent under the invalidate strategy, and get_all_states is absent.
C30_FilterDecidesHandling ==
    [][\A n \in 1..Len(events) :
          HandlesFiltering(n) =>
              LET E == events[n].entity_id
                  entry == cache_lookup(caches', "states", s_get_state_ \o E)
              IN  /\ ~PassesFilter(E) => caches' = caches
                  /\ (PassesFilter(E) /\ events[n].new_state # None) =>
                        /\ settings.WEBSOCKET_UPDATE_CACHE
                              => entry = events[n].new_state
                        /\ ~settings.WEBSOCKET_UPDATE_CACHE => entry = None
                        /\ cache_lookup(caches', "states", s_get_all_states)
                              = None]_vars

\* C30 as stated: the event changes the cache if and only if it passes
C30_ChangesCacheIffPasses ==
    [][\A n \in 1..Len(events) :
          HandlesFiltering(n) =>
              (caches' # caches <=> PassesFilter(events[n].entity_id))]_vars

\* an event for an entity of an excluded domain whose id also matches an
\* inclusion prefix was handled while the states cache held entries
C30_Witness ==
    /\ handled = 1
    /\ settings.WEBSOCKET_FILTER_ENABLED
    /\ SplitFirst(events[1].entity_id) \in settings.WEBSOCKET_EXCLUDE_DOMAINS
    /\ \E f \in settings.WEBSOCKET_ENTITY_FILTERS :
          StartsWith(events[1].entity_id, f)
    /\ events[1].new_state # None
    /\ settings.WEBSOCKET_UPDATE_CACHE
    /\ caches["states"] # <<>>

\* the message types the dispatch loop has no branch for, and text that is
\* not JSON
Unrecognized == {"auth_required", "auth_ok", "auth_invalid", "not_json"}

\* C31: when the dispatch loop takes a message off its connection, be it of
\* an unrecognized type, not valid JSON, or an event whose handling raises,
\* the loop is still running afterwards on the same connection and the
\* client's connected flag is as it was, so the next message is received.
C31_BadMessageKeepsLoop ==
    [][\A c \in 1..Len(conns) :
          (/\ conns[c].inbox # None
           /\ conns'[c].inbox = None
           /\ \A i \in 1..Len(calls) : calls'[i].pc = calls[i].pc) =>
              /\ handlers' = handlers
              /\ connected' = connected
              /\ conns[c].inbox \in Unrecognized => caches' = caches]_vars

\* after the two messages of the handshake the loop has taken a third
\* message off its connection, one that left the caches alone (any but a
\* well-formed state_changed event), and is still running on it
C31_Witness ==
    \E h \in 1..Len(handlers) :
        /\ conns[handlers[h]].closed = "open"
        /\ conns[handlers[h]].authed
        /\ conns[handlers[h]].sent = 3
        /\ conns[handlers[h]].inbox = None
        /\ \A i \in 1..Len(calls) : calls[i].pc = "done"
        /\ caches["states"] = <<>>
        /\ connected

\* connect() call i receives auth_ok in this step
ReceivesAuthOk(i) ==
    /\ calls[i].pc = "recv2"
    /\ calls'[i].pc # "recv2"
    /\ calls'[i].second = "auth_ok"

\* connect() call i, in which auth_ok was received, returns in this step
ReturnsAuthed(i) ==
    /\ calls[i].pc # "done"
    /\ calls'[i].pc = "done"
    /\ calls'[i].second = "auth_ok"

\* C32: reconnect_attempts is set to 0 when a connect() call, the initial
\* one or one made by the reconnection loop, receives auth_ok; nothing else
\* lowers the counter, and the only other change to it is the increment of
\* an _attempt_reconnect.
C32_AuthOkResetsAttempts ==
    [][/\ \A i \in 1..Len(calls) :
             ReceivesAuthOk(i) => reconnect_attempts' = 0
       /\ reconnect_attempts' # reconnect_attempts =>
             \/ reconnect_attempts' = reconnect_attempts + 1
             \/ /\ reconnect_attempts' = 0
                /\ ~(\A i \in 1..Len(calls) : ~ReceivesAuthOk(i))]_vars

\* C32 as stated: the counter is 0 after any connect() in which auth_ok was
\* received, also one that goes on to fail
C32_ZeroAfterAnyAuthedConnect ==
    [][\A i \in 1..Len(calls) :
          ReturnsAuthed(i) => reconnect_attempts' = 0]_vars

\* the initial connect() failed, the reconnection loop counted an attempt,
\* and its connect() received auth_ok and returned true: the counter is 0
C32_Witness ==
    /\ Len(calls) = 2
    /\ calls[1].pc = "done" /\ ~calls[1].result
    /\ calls[2].caller = "reconnect"
    /\ calls[2].pc = "done" /\ calls[2].result
    /\ calls[2].second = "auth_ok"
    /\ reconnect_attempts = 0

\* the three default subscriptions are recorded, made in the order of
\* EventTypes with the last under id
DefaultSubscriptions(subs, id) ==
    /\ DOMAIN subs = {EventTypes[k] : k \in 1..3}
    /\ subs[EventTypes[1]] < subs[EventTypes[2]]
    /\ subs[EventTypes[2]] < subs[EventTypes[3]]
    /\ subs[EventTypes[3]] = id

RecordedIds ==
    ({active_subscriptions[t] : t \in DOMAIN active_subscriptions}
        \cup DOMAIN subscriptions
        \cup {requests[r].id : r \in 1..Len(requests)}
        \cup {calls[i].sub_id : i \in 1..Len(calls)}) \ {0}

\* C34: the message counter never goes back and moves by one for each id
\* taken; an id that subscribe_events, get_states or call_service puts on
\* record in a step is the counter's value before the step, greater than
\* every id on record; a request refused because the client is not connected
\* takes no id.
C34_IdsStrictlyIncrease ==
    /\ [][/\ message_id' \in {message_id, message_id + 1}
          /\ \A id \in RecordedIds' \ RecordedIds :
                /\ id = message_id
                /\ message_id' = message_id + 1
          /\ (Len(requests') > Len(requests) /\ ~connected) =>
                /\ message_id' = message_id
                /\ requests'[Len(requests')].conn = NoConn]_vars
    /\ [](\A id \in RecordedIds : id < message_id)

\* after a reconnection, whose three subscriptions took fresh ids, a request
\* was sent on the second transport under an id above all of them
C34_Witness ==
    /\ Len(calls) = 2
    /\ calls[2].pc = "done" /\ calls[2].result
    /\ calls[1].sub_id < calls[2].sub_id
    /\ \E r \in 1..Len(requests) :
          /\ requests[r].state = "waiting"
          /\ requests[r].conn = 2
          /\ requests[r].id > calls[2].sub_id

(***************************************************************************)
(* The readers of an authenticated connection.                             *)
(***************************************************************************)
\* an event message is taken from authenticated connection c in this step
TakesEvent(c) ==
    /\ conns[c].authed
    /\ conns[c].inbox \in {"event", "service_event"}
    /\ conns'[c].inbox = None

\* C35: every event message taken from an authenticated connection is taken
\* by the dispatch loop, which passes it to _handle_event; the loop of
\* _wait_for_response never reads an event message and drops it, a request
\* waiting for its response or not.
C35_EventsReachHandler ==
    [][\A c \in 1..Len(conns) :
          TakesEvent(c) =>
              /\ HandlerReads(c)
              /\ requests' = requests]_vars

(***************************************************************************)
(* The tasks of one client.                                                *)
(***************************************************************************)
\* the _message_handler tasks created and not ended
DispatchLoops == pendingHandlers + Len(handlers)

\* the _attempt_reconnect chains under way: tasks created by the startup
\* code and not started, chains in their sleep, and chains inside connect()
ReconnectionLoops ==
    pendingReconnects + sleeping
        + Cardinality({i \in 1..Len(calls) :
                          calls[i].caller = "reconnect" /\ calls[i].pc # "done"})

\* C36: at any time the client has at most one dispatch loop and at most one
\* reconnection loop, whatever the interleaving of connect(), closures of
\* the transport, failed subscription sends and reconnection attempts.
C36_OneLoopOfEachKind ==
    /\ DispatchLoops <= 1
    /\ ReconnectionLoops <= 1

\* connect() call i returns in this step
Returns(i) == calls[i].pc # "done" /\ calls'[i].pc = "done"

\* C37: what connect() returns agrees with the client's state at the
\* return: after True is_connected() is true; after False is_connected() is
\* false and the dispatch loop the call created, if it received auth_ok, is
\* neither waiting to start nor iterating the call's transport.
C37_ReturnAgreesWithState ==
    [][\A i \in 1..Len(calls) :
          Returns(i) =>
              IF calls'[i].result
              THEN IsConnected(connected', websocket')
              ELSE /\ ~IsConnected(connected', websocket')
                   /\ IsAuthOk(calls'[i].second) =>
                         /\ pendingHandlers' = 0
                         /\ \A h \in 1..Len(handlers') :
                               handlers'[h] # calls[i].conn]_vars

(***************************************************************************)
(* Every pending unit runs, once.                                          *)
(***************************************************************************)
Pending(id) == id \in Ids(queue)

Occurrences(seq, x) == Cardinality({k \in 1..Len(seq) : seq[k] = x})

\* a unit is in the heap once and is begun once, after it has left the heap
ExecutedOnce ==
    /\ \A id \in 1..Len(units) :
          Occurrences(started, id) + Occurrences([k \in 1..Len(queue) |-> queue[k].id], id) <= 1
    /\ \A id \in Tasks(executing) : Occurrences(started, id) = 1
    /\ Cardinality(Tasks(executing)) = Cardinality(executing)

\* C38: while shutdown() is not called and every callable terminates, every
\* unit in the pending queue is eventually dequeued and executed, whatever
\* is submitted and completed meanwhile, and no unit is executed twice.
C38_EveryPendingUnitRuns ==
    /\ \A id \in 1..LiveUnits : Pending(id) ~> ~Pending(id)
    /\ []ExecutedOnce

\* the units pending or running
InFlight == Ids(queue) \cup Tasks(executing)

\* an add_request call puts a unit in the heap in this step
PutsInHeap == ~(InFlight' \subseteq InFlight)

\* C38 as it holds: no unit is executed twice, and once submissions stop
\* every pending unit is eventually dequeued and executed, so that the heap
\* empties for good; a unit waits without end only while units keep being
\* submitted
C38_PendingUnitsRunOnceSubmissionsStop ==
    /\ <>[][~PutsInHeap]_vars => <>[](queue = <<>>)
    /\ []ExecutedOnce

\* a unit that waited while another ran has been dequeued by a created
\* _process_queue task and has completed
C38_Witness ==
    /\ Len(units) >= 2
    /\ \E id \in 1..Len(units) :
          /\ pendingAt[id] = {id}
          /\ ret[id].kind = "None"
          /\ id \in Tasks(executing)
          /\ \E e \in executing : e.task = id /\ e.caller = 0

(***************************************************************************)
(* What a request adds to the rate-limit windows.                          *)
(***************************************************************************)
\* the requests recorded for key that a check at time t counts
WindowCount(storage, key, t) ==
    LET d == DictGet(storage, key, <<>>)
        kept == {ts \in DOMAIN d : InWindow(ts, t - WindowSeconds)}
    IN  sum([ts \in kept |-> d[ts]])

\* auth_middleware answers a request in this step
Answers == served'.n = served.n + 1

\* C39: only an allowed request adds to a rate-limit window, one request to
\* the window of its own key.  A request answered 401 changes no window (it
\* is rejected before the rate limit is looked at); a request answered 429
\* leaves the count of its key unchanged at every later time, so it does not
\* delay the moment the key is allowed again; and no request changes what
\* is recorded for another key.
C39_OnlyAllowedRequestsRecorded ==
    [][Answers =>
          LET key == api_key_auth(served'.credential) \o ":" \o client_ip
          IN  /\ served'.status = "401" =>
                    rate_limit_storage' = rate_limit_storage
              /\ served'.status = "429" =>
                    \A t \in now..(MaxClockR + WindowSeconds) :
                        WindowCount(rate_limit_storage', key, t)
                            = WindowCount(rate_limit_storage, key, t)
              /\ (served'.status = "call_next" /\ ~IsBypass(served'.path)) =>
                    WindowCount(rate_limit_storage', key, now)
                        = WindowCount(rate_limit_storage, key, now) + 1
              /\ \A k \in RateKeys \ {key} :
                    DictGet(rate_limit_storage', k, <<>>)
                        = DictGet(rate_limit_storage, k, <<>>)]_vars

\* a request of a key whose window is full has been answered 429, at a later
\* time than the requests recorded for the key
C39_Witness ==
    /\ served.status = "429"
    /\ \E key \in RateKeys :
          /\ WindowCount(rate_limit_storage, key, now) = MaxRequests
          /\ Str(now) \notin DOMAIN rate_limit_storage[key]

(***************************************************************************)
(* Events that name no entity or carry no new state.                       *)
(***************************************************************************)
\* the handler takes event n in this step, and the event has no entity id
\* or a null new_state
HandlesIncomplete(n) ==
    /\ handled = n - 1
    /\ handled' = n
    /\ events[n].entity_id = NoEntity \/ events[n].new_state = None

\* C40: a state_changed event without an entity id, or with a null
\* new_state, leaves every cache as it was: no entry of the states cache (the
\* per-entity entry, get_all_states, the group entries) is written or
\* removed, under either strategy and whatever the filter settings.
C40_IncompleteEventChangesNothing ==
    [][\A n \in 1..Len(events) : HandlesIncomplete(n) => caches' = caches]_vars

\* the event of a removed entity has been handled and the entries written
\* before it, the entity's own and the all-entities one, are still cached
C40_Witness ==
    /\ handled = 2
    /\ events[2].entity_id # NoEntity /\ events[2].new_state = None
    /\ TTLContains(caches["states"], s_get_state_ \o events[2].entity_id)
    /\ TTLContains(caches["states"], s_get_all_states)


====
